---- MODULE Spec2Model ----
(***************************************************************************)
(* Model of the bank-statement extraction orchestrator                     *)
(* (backend/services/llm_processor.py), the text normalizer                *)
(* (backend/utils/text_normalizer.py) and the correction-learning service  *)
(* (backend/services/learning_service.py).                                 *)
(*                                                                         *)
(* Conventions                                                             *)
(*  - a text is a sequence of character tokens; "hk_*" are half-width      *)
(*    katakana code points (U+FF66..U+FF9F), "fk_*" their full-width       *)
(*    forms, "cmb_dk" the combining voiced mark U+3099, "sp" a blank;      *)
(*  - a confidence is an integer number of basis points (1/10000), so      *)
(*    0.85 is 8500; averages and ratios are kept as exact fractions        *)
(*    [num, den];                                                          *)
(*  - a JSON value of a provider reply is a record [k, v] whose k says     *)
(*    whether the key is absent, null, a number, a numeric string or a     *)
(*    value of a wrong type.                                               *)
(***************************************************************************)
EXTENDS Integers, Sequences, FiniteSets, TLC

\* ------------------------------------------------------------------------
\* Bounds of the model
\* ------------------------------------------------------------------------
MaxPages == 2

MaxTx == 2

\* length of the long list of provider A; provider B's long list has one
\* transaction more, which puts their agreement between 0.85 and 0.95
MaxBand == 6

\* ------------------------------------------------------------------------
\* Small helpers
\* ------------------------------------------------------------------------
Min(a, b) == IF a <= b THEN a ELSE b

Max(a, b) == IF a >= b THEN a ELSE b

Rat(n, d) == [num |-> n, den |-> d]

\* Python None in an Optional[float] field
NoneR == [num |-> 0, den |-> 0]

RatGT(r, n, d) == r.num * d > n * r.den

JAbsent == [k |-> "absent", v |-> 0]

JNull == [k |-> "null", v |-> 0]

JNum(n) == [k |-> "num", v |-> n]

JNumStr(n) == [k |-> "numstr", v |-> n]

JBad == [k |-> "bad", v |-> 0]

AbsentS == "<absent>"

NullS == "<null>"

AbsentText == <<"<absent>">>

NullText == <<"<null>">>

\* dict.get(key, default) on a JSON value: the default replaces an absent key only
Get(j, default) == IF j.k = "absent" THEN default ELSE j

\* ------------------------------------------------------------------------
\* Text Normalizer (backend/utils/text_normalizer.py)
\* ------------------------------------------------------------------------
HalfKana == {"hk_a", "hk_ka", "hk_dk"}

IsPrefixAt(s, i, pat) ==
    /\ i + Len(pat) - 1 <= Len(s)
    /\ \A j \in 1..Len(pat) : s[i + j - 1] = pat[j]

\* Python str.replace(old, new): every non-overlapping occurrence, left to right
RECURSIVE ReplaceFrom(_, _, _, _)
ReplaceFrom(s, i, old, new) ==
    IF i > Len(s) THEN <<>>
    ELSE IF Len(old) > 0 /\ IsPrefixAt(s, i, old)
         THEN new \o ReplaceFrom(s, i + Len(old), old, new)
         ELSE <<s[i]>> \o ReplaceFrom(s, i + 1, old, new)

Replace(s, old, new) == ReplaceFrom(s, 1, old, new)

\* Python "old in s"
Contains(s, old) == \E i \in 1..(Len(s) + 1) : IsPrefixAt(s, i, old)

\* unicodedata.normalize('NFKC', text): compatibility decomposition of each
\* half-width code point, then canonical composition of kana + voiced mark
NFKCChar(c) ==
    CASE c = "hk_a" -> "fk_a"
      [] c = "hk_ka" -> "fk_ka"
      [] c = "hk_dk" -> "cmb_dk"
      [] OTHER -> c

RECURSIVE NFKCCompose(_)
NFKCCompose(s) ==
    IF Len(s) = 0 THEN <<>>
    ELSE IF Len(s) >= 2 /\ s[1] = "fk_ka" /\ s[2] = "cmb_dk"
         THEN <<"fk_ga">> \o NFKCCompose(SubSeq(s, 3, Len(s)))
         ELSE <<s[1]>> \o NFKCCompose(Tail(s))

NFKC(s) == NFKCCompose([i \in 1..Len(s) |-> NFKCChar(s[i])])

\* one representative entry of char_map and of term_map (the keys of both
\* maps are half-width words)
char_map == << <<"hk_a", "hk_ka">>, <<"fk_a", "fk_ka">> >>

term_map == << <<"hk_ka", "hk_dk", "hk_a">>, <<"x">> >>

normalize_katakana(text) ==
    IF Len(text) = 0 THEN text
    ELSE Replace(NFKC(text), char_map[1], char_map[2])

normalize_bank_terms(text) ==
    IF Len(text) = 0 THEN text
    ELSE Replace(text, term_map[1], term_map[2])

\* ' '.join(text.split()): runs of blanks collapse, leading and trailing go
RECURSIVE SplitJoin(_, _, _)
SplitJoin(s, started, gap) ==
    IF Len(s) = 0 THEN <<>>
    ELSE IF s[1] = "sp"
         THEN SplitJoin(Tail(s), started, started)
         ELSE (IF gap THEN <<"sp">> ELSE <<>>) \o <<s[1]>> \o SplitJoin(Tail(s), TRUE, FALSE)

\* "if not text: return text" passes None and "" through
normalize_text(text) ==
    IF Len(text) = 0 \/ text = NullText THEN text
    ELSE SplitJoin(normalize_bank_terms(normalize_katakana(text)), FALSE, FALSE)

\* ------------------------------------------------------------------------
\* Provider replies and the dictionaries parsed from them
\* ------------------------------------------------------------------------
\* raw transaction records of a reply (the elements of "transactions")
RawKa == [date |-> "01/15", description |-> <<"hk_ka", "hk_dk">>,
          withdrawal |-> JNull, deposit |-> JNum(100), balance |-> JNum(1000),
          confidence_score |-> JAbsent, extra |-> {}]

RawAtm == [date |-> "01/16", description |-> <<"sp", "x", "sp", "sp", "hk_a">>,
           withdrawal |-> JNumStr(50), deposit |-> JAbsent, balance |-> JNum(950),
           confidence_score |-> JNum(9200), extra |-> {<<"category", "atm">>}]

RawBare == [date |-> AbsentS, description |-> AbsentText,
            withdrawal |-> JAbsent, deposit |-> JAbsent, balance |-> JAbsent,
            confidence_score |-> JAbsent, extra |-> {}]

\* a row whose balance is JSON null: TransactionData rejects it
RawNoBalance == [date |-> "01/17", description |-> <<"x">>,
                 withdrawal |-> JNum(10), deposit |-> JNull, balance |-> JNull,
                 confidence_score |-> JAbsent, extra |-> {}]

RawTxs == {RawKa, RawAtm, RawBare, RawNoBalance}

RECURSIVE SeqsUpTo(_, _)
SeqsUpTo(S, n) ==
    IF n = 0 THEN {<<>>}
    ELSE LET shorter == SeqsUpTo(S, n - 1)
         IN  shorter \cup {Append(q, x) : q \in {r \in shorter : Len(r) = n - 1}, x \in S}

TxList(l) == [k |-> "list", v |-> l]

TxAbsent == [k |-> "absent", v |-> <<>>]

TxNull == [k |-> "null", v |-> <<>>]

\* a parsed reply: shape "dict" is a JSON object, "other" any other JSON value
Dict(txs, conf, tag) ==
    [shape |-> "dict", transactions |-> txs, confidence |-> conf, error_type |-> tag]

NotADict == [shape |-> "other", transactions |-> TxAbsent, confidence |-> JAbsent,
             error_type |-> "none"]

\* what a provider call can do: raise (transport, API, timeout), answer text
\* without braces, answer text that is not JSON, answer JSON
Reply(kind, body) == [kind |-> kind, body |-> body]

ApiError == Reply("api_error", NotADict)

NoJson == Reply("no_json", NotADict)

BadJson == Reply("bad_json", NotADict)

JsonReply(body) == Reply("json", body)

\* {"transactions": [], "confidence": 0.0}, with the error tag when there is one
EmptyCandidate(tag) == Dict(TxList(<<>>), JNum(0), tag)

\* ------------------------------------------------------------------------
\* Model Extractors (llm_processor.py): each maps the outcome of its
\* provider call to the dictionary it returns; none of them raises
\* ------------------------------------------------------------------------
\* The reply is cut from its first "{" to its last "}" and parsed; the
\* len(result.get('transactions', [])) of the success message raises on a
\* null list, which the outer handler turns into the error candidate.
_claude_extract(reply) ==
    CASE reply.kind = "api_error" -> EmptyCandidate("claude_api_error")
      [] reply.kind = "no_json" -> EmptyCandidate("none")
      [] reply.kind = "bad_json" -> EmptyCandidate("none")
      [] OTHER -> IF reply.body.shape # "dict" \/ reply.body.transactions.k = "null"
                  THEN EmptyCandidate("claude_api_error")
                  ELSE reply.body

_gpt4v_extract(reply) ==
    CASE reply.kind = "api_error" -> EmptyCandidate("openai_api_error")
      [] reply.kind = "no_json" -> EmptyCandidate("none")
      [] reply.kind = "bad_json" -> EmptyCandidate("none")
      [] OTHER -> IF reply.body.shape # "dict" \/ reply.body.transactions.k = "null"
                  THEN EmptyCandidate("openai_api_error")
                  ELSE reply.body

\* {"validation": "failed", "confidence": 0.5, "error": ..., "error_type": "validation_error"}
ValidationFailed == Dict(TxAbsent, JNum(5000), "validation_error")

\* variant: a failed validation is the empty candidate, confidence 0.0
_gpt4v_validate_empty(reply, claude_result) ==
    IF reply.kind = "json" THEN reply.body ELSE EmptyCandidate("validation_error")

\* json.loads of the whole reply; every failure gives ValidationFailed, a
\* reply that parses is returned whatever JSON value it is
_gpt4v_validate(reply, claude_result) ==
    IF reply.kind = "json" THEN reply.body ELSE ValidationFailed

\* ------------------------------------------------------------------------
\* Data model (backend/models/transaction.py)
\* ------------------------------------------------------------------------
\* A function of the code either returns a value or raises
Returned(v) == [raised |-> FALSE, value |-> v]

Raised == [raised |-> TRUE, value |-> <<>>]

\* Optional[int]: a missing or null value is None, a numeric string is coerced
IsOptInt(j) == j.k \in {"absent", "null", "num", "numstr"}

OptInt(j) == IF j.k \in {"num", "numstr"} THEN JNum(j.v) ELSE JNull

IsInt(j) == j.k \in {"num", "numstr"}

\* TransactionData(date=tx.get("date", ""), description=normalize_text(tx.get("description", "")),
\*   withdrawal=tx.get("withdrawal"), deposit=tx.get("deposit"),
\*   balance=tx.get("balance", 0), confidence_score=tx.get("confidence_score", overall))
\* pydantic raises ValidationError on a field of the wrong type
TransactionDataOf(tx, overall_confidence) ==
    LET date == IF tx.date = AbsentS THEN "" ELSE tx.date
        description == normalize_text(IF tx.description = AbsentText THEN <<>> ELSE tx.description)
        balance == Get(tx.balance, JNum(0))
        tx_confidence == Get(tx.confidence_score, overall_confidence)
    IN  IF \/ date = NullS
           \/ description = NullText
           \/ ~IsOptInt(tx.withdrawal)
           \/ ~IsOptInt(tx.deposit)
           \/ ~IsInt(balance)
           \/ tx_confidence.k # "num"
        THEN Raised
        ELSE Returned([date |-> date,
                       description |-> description,
                       withdrawal |-> OptInt(tx.withdrawal),
                       deposit |-> OptInt(tx.deposit),
                       balance |-> JNum(balance.v),
                       confidence_score |-> tx_confidence.v,
                       extra |-> {}])

ProcessingResult(transactions, confidence_score, processing_method, claude_confidence, gpt4v_confidence, agreement_score) ==
    [transactions |-> transactions,
     confidence_score |-> confidence_score,
     processing_method |-> processing_method,
     claude_confidence |-> claude_confidence,
     gpt4v_confidence |-> gpt4v_confidence,
     agreement_score |-> agreement_score]

\* the loop that both _claude_only_processing and _merge_transactions run
\* over the transactions of A
RECURSIVE ConvertTransactions(_, _)
ConvertTransactions(raw, overall_confidence) ==
    IF Len(raw) = 0 THEN Returned(<<>>)
    ELSE LET head == TransactionDataOf(raw[1], overall_confidence)
             rest == ConvertTransactions(Tail(raw), overall_confidence)
         IN  IF head.raised \/ rest.raised THEN Raised
             ELSE Returned(<<head.value>> \o rest.value)

\* result.get("transactions", [])
TransactionsOf(result) == IF result.transactions.k = "list" THEN result.transactions.v ELSE <<>>

\* ------------------------------------------------------------------------
\* Merge & Confidence Engine (llm_processor.py)
\* ------------------------------------------------------------------------
\* variant: the ratio of the two counts as they come
_calculate_agreement_ratio(claude_result, gpt4v_result) ==
    IF Len(TransactionsOf(claude_result)) = 0 \/ Len(TransactionsOf(gpt4v_result)) = 0
    THEN Rat(1, 2)
    ELSE Rat(Len(TransactionsOf(claude_result)), Len(TransactionsOf(gpt4v_result)))

\* "if not claude_transactions or not gpt4v_transactions: return 0.5",
\* else min(len, len) / max(len, len)
_calculate_agreement(claude_result, gpt4v_result) ==
    LET claude_transactions == TransactionsOf(claude_result)
        gpt4v_transactions == TransactionsOf(gpt4v_result)
    IN  IF Len(claude_transactions) = 0 \/ Len(gpt4v_transactions) = 0
        THEN Rat(1, 2)
        ELSE Rat(Min(Len(claude_transactions), Len(gpt4v_transactions)),
                 Max(Len(claude_transactions), Len(gpt4v_transactions)))

\* variant: the lower of the two confidences is scaled in the last branch
_calculate_final_confidence_min(claude_conf, gpt4v_conf, agreement_score) ==
    IF RatGT(agreement_score, 95, 100)
    THEN Min(claude_conf, gpt4v_conf) + 500
    ELSE IF RatGT(agreement_score, 85, 100)
         THEN (claude_conf + gpt4v_conf) \div 2
         ELSE (Min(claude_conf, gpt4v_conf) * 7) \div 10

\* confidences in basis points: + 0.05 is + 500, * 0.7 is * 7 / 10
_calculate_final_confidence(claude_conf, gpt4v_conf, agreement_score) ==
    IF RatGT(agreement_score, 95, 100)
    THEN Min(claude_conf, gpt4v_conf) + 500
    ELSE IF RatGT(agreement_score, 85, 100)
         THEN (claude_conf + gpt4v_conf) \div 2
         ELSE (Max(claude_conf, gpt4v_conf) * 7) \div 10

\* variant: the longer of the two lists is taken
_merge_transactions_longer(claude_result, gpt4v_result) ==
    ConvertTransactions(
        IF Len(TransactionsOf(gpt4v_result)) > Len(TransactionsOf(claude_result))
        THEN TransactionsOf(gpt4v_result)
        ELSE TransactionsOf(claude_result),
        Get(claude_result.confidence, JNum(8500)))

_merge_transactions(claude_result, gpt4v_result) ==
    ConvertTransactions(TransactionsOf(claude_result),
                        Get(claude_result.confidence, JNum(8500)))

\* gpt4v_result.get raises when the validator's reply is not a JSON object;
\* the arithmetic of _calculate_final_confidence raises on a confidence
\* that is not a number
_merge_results(claude_result, gpt4v_result, method) ==
    IF gpt4v_result.shape # "dict" THEN Raised
    ELSE LET claude_confidence == Get(claude_result.confidence, JNum(0))
             gpt4v_confidence == Get(gpt4v_result.confidence, JNum(0))
             agreement_score == _calculate_agreement(claude_result, gpt4v_result)
             final_transactions == _merge_transactions(claude_result, gpt4v_result)
         IN  IF claude_confidence.k # "num" \/ gpt4v_confidence.k # "num" \/ final_transactions.raised
             THEN Raised
             ELSE Returned(ProcessingResult(
                      final_transactions.value,
                      Rat(_calculate_final_confidence(claude_confidence.v, gpt4v_confidence.v,
                                                      agreement_score), 1),
                      method,
                      Rat(claude_confidence.v, 1),
                      Rat(gpt4v_confidence.v, 1),
                      agreement_score))

\* the part of _claude_only_processing that follows the call of A
ClaudeOnlyResult(result) ==
    LET overall_confidence == Get(result.confidence, JNum(8500))
        transactions == ConvertTransactions(TransactionsOf(result), overall_confidence)
    IN  IF overall_confidence.k # "num" \/ transactions.raised
        THEN Raised
        ELSE Returned(ProcessingResult(transactions.value, Rat(overall_confidence.v, 1),
                                       "claude_only", Rat(overall_confidence.v, 1), NoneR, NoneR))

MockTx(date, description, withdrawal, deposit, balance, confidence_score, extra) ==
    [date |-> date, description |-> description, withdrawal |-> withdrawal,
     deposit |-> deposit, balance |-> balance, confidence_score |-> confidence_score,
     extra |-> extra]

\* the four demonstration rows, with their dynamic columns
mock_transactions ==
    << MockTx("01/15", <<"salary">>, JNull, JNum(350000), JNum(1250000), 9500,
              {<<"bank_code", "0009">>, <<"branch", "honten">>, <<"category", "salary">>}),
       MockTx("01/16", <<"electricity">>, JNum(12500), JNull, JNum(1237500), 9200,
              {<<"bank_code", "0009">>, <<"branch", "honten">>, <<"category", "utility">>,
               <<"vendor", "tepco">>}),
       MockTx("01/17", <<"atm">>, JNum(30000), JNull, JNum(1207500), 8800,
              {<<"bank_code", "0009">>, <<"branch", "honten">>, <<"category", "cash">>,
               <<"atm_location", "shibuya">>}),
       MockTx("01/18", <<"supermarket">>, JNum(8200), JNull, JNum(1199300), 8500,
              {<<"bank_code", "0009">>, <<"branch", "honten">>, <<"category", "food">>,
               <<"vendor", "aeon">>, <<"payment_method", "debit">>}) >>

_create_mock_result ==
    ProcessingResult(mock_transactions, Rat(9000, 1), "mock_data", Rat(9000, 1), NoneR, NoneR)

\* the result process_document returns from its except clause
ErrorResult == ProcessingResult(<<>>, Rat(0, 1), "error", NoneR, NoneR, NoneR)

\* variant: no except clause, the exception of the strategy is let out
FallBackToMock_reraise(outcome) == outcome

\* "except Exception: return self._create_mock_result()" of _process_single_image
FallBackToMock(outcome) == IF outcome.raised THEN Returned(_create_mock_result) ELSE outcome

\* variant: the estimate differs from page to page
_assess_image_quality_by_page(image) == IF image = 1 THEN 90 ELSE 40

\* the shipped estimator
_assess_image_quality(image) == 70

\* variant: the upper threshold is inclusive
StrategyFor_inclusive(quality) ==
    IF quality >= 80 THEN "claude_only"
    ELSE IF quality > 50 THEN "staged"
         ELSE "parallel"

\* strategy chosen by _process_single_image (quality in hundredths)
StrategyFor(quality) ==
    IF quality > 80 THEN "claude_only"
    ELSE IF quality > 50 THEN "staged"
         ELSE "parallel"

\* variant: the placeholder value is taken for a key
ValidKey_placeholder(key) == key \notin {"unset", "empty"}

\* "if not key or key == placeholder: key = None"
ValidKey(key) == key \notin {"unset", "empty", "placeholder"}

\* ------------------------------------------------------------------------
\* Inputs of one run of process_document
\* ------------------------------------------------------------------------
KeyStates == {"unset", "empty", "placeholder", "set"}

\* every configuration without a usable key, and three with one
KeyConfigs ==
    [openai : KeyStates \ {"set"}, anthropic : KeyStates \ {"set"}]
    \cup {[openai |-> "set", anthropic |-> "set"],
          [openai |-> "set", anthropic |-> "placeholder"],
          [openai |-> "empty", anthropic |-> "set"]}

\* a document: the leading bytes that _detect_file_type looks at, and for a
\* PDF whether fitz can open it, its page count and the page whose
\* rendering fails (0: none)
Docs ==
    [header : {"jpeg", "png", "other"}, well_formed : {TRUE}, pages : {1}, bad_page : {0}]
    \cup [header : {"%PDF"}, well_formed : {FALSE}, pages : {0}, bad_page : {0}]
    \cup {d \in [header : {"%PDF"}, well_formed : {TRUE}, pages : 0..MaxPages,
                 bad_page : 0..MaxPages] : d.bad_page <= d.pages}

_detect_file_type(data) ==
    CASE data.header = "%PDF" -> "pdf"
      [] data.header = "jpeg" -> "jpeg"
      [] data.header = "png" -> "png"
      [] OTHER -> "unknown"

\* the progress sink: none, or a callback (each of its deliveries can fail)
Sinks == {"absent", "present"}

\* replies of provider A to an extraction request
AConfidences == {JAbsent, JNum(9000), JNum(10000), JBad}

LongList(n) == [m \in 1..n |-> RawAtm]

ALists == SeqsUpTo({RawKa, RawAtm}, MaxTx) \cup {<<RawBare>>, <<RawNoBalance>>, LongList(MaxBand)}

ARepliesPage ==
    {ApiError, NoJson, BadJson}
    \cup {JsonReply(Dict(t, c, "none")) :
            t \in {TxAbsent, TxNull} \cup {TxList(l) : l \in ALists}, c \in AConfidences}

\* the replies tried on the pages of a multi-page document
ARepliesPdf ==
    {ApiError, BadJson,
     JsonReply(Dict(TxList(<<RawKa>>), JNum(9000), "none")),
     JsonReply(Dict(TxList(<<RawAtm, RawKa>>), JAbsent, "none")),
     JsonReply(Dict(TxList(<<RawNoBalance>>), JNum(9000), "none"))}

AReplies(d) == IF d.header = "%PDF" THEN ARepliesPdf ELSE ARepliesPage

\* replies of provider B to an extraction request: only the length of its
\* list and its confidence can matter
BLists ==
    {SubSeq(<<RawAtm, RawKa, RawBare, RawKa, RawAtm>>, 1, n) : n \in 0..(MaxTx + 1)}
    \cup {LongList(MaxBand + 1)}

BRepliesPage ==
    {ApiError, BadJson, JsonReply(NotADict)}
    \cup {JsonReply(Dict(TxList(l), c, "none")) : l \in BLists, c \in {JAbsent, JNum(8000), JNum(10000)}}

BRepliesPdf ==
    {ApiError, JsonReply(Dict(TxList(<<RawAtm>>), JNum(8000), "none"))}

BReplies(d) == IF d.header = "%PDF" THEN BRepliesPdf ELSE BRepliesPage

\* replies of provider B to a validation request: a failure, a JSON value
\* that is not an object, a verification report, a report with a list
VRepliesPage ==
    {ApiError, BadJson, JsonReply(NotADict),
     JsonReply(Dict(TxAbsent, JAbsent, "none")),
     JsonReply(Dict(TxAbsent, JNum(8000), "none")),
     JsonReply(Dict(TxAbsent, JBad, "none")),
     JsonReply(Dict(TxNull, JNum(10000), "none"))}
    \cup {JsonReply(Dict(TxList(l), JNum(10000), "none")) : l \in BLists}

VRepliesPdf ==
    {ApiError, JsonReply(NotADict), JsonReply(Dict(TxAbsent, JNum(8000), "none"))}

VReplies(d) == IF d.header = "%PDF" THEN VRepliesPdf ELSE VRepliesPage

\* values a replaced quality estimator can return (hundredths): both sides
\* of each threshold for a single image, one value per strategy for the
\* pages of a PDF
QualitiesPage == {50, 51, 70, 80, 81}

QualitiesPdf == {50, 70, 81}

Qualities(d) == IF d.header = "%PDF" THEN QualitiesPdf ELSE QualitiesPage

\* ------------------------------------------------------------------------
\* State
\* ------------------------------------------------------------------------
VARIABLES
    keys,               \* OPENAI_API_KEY and ANTHROPIC_API_KEY of the environment
    image_data,         \* the document handed to process_document
    sink,               \* the progress_callback
    pc,                 \* position in process_document / _process_single_image
    images,             \* pages rasterized so far (page numbers)
    i,                  \* index of the page loop
    all_transactions,
    total_confidence,
    quality_score,
    claude_result,
    gpt4v_result,
    pending,            \* provider calls of asyncio.gather not yet completed
    page_result,
    page_results,       \* history: the results _process_single_image returned
    calls,              \* history: provider calls in the order they were started
    replies,            \* history: provider calls that completed, with what the adapter returned
    progress_log,       \* history: percentages handed to the progress sink
    undelivered,        \* history: a delivery to the progress sink raised
    raster_failed,      \* history: the rasterizer raised
    result,             \* what process_document returned
    status              \* "running", "returned" or "raised"

\* state of one LearningService instance and of the tables it works on
VARIABLES
    correction_history, \* table correction_history, in insertion order
    learning_patterns,  \* table learning_patterns, in insertion order
    kana_dictionary,    \* table kana_dictionary (kana_text is unique)
    _cache,             \* KanaConverter._cache
    lpc,                \* "idle", or "applying" inside apply_learned_corrections
    todo,               \* transactions apply_learned_corrections has not reached yet
    corrected_transactions,
    bank_name,          \* bank of the running apply_learned_corrections
    last,               \* history: the last completed call and what it returned
    taught,             \* history: pairs <<k, c>> taught by a cell_edit when k had no entry
    ops                 \* number of calls made so far

\* state of one request to POST /upload (backend/main.py)
VARIABLES
    upc,                \* position in upload_file
    upload_result,      \* its local "result" once the learned corrections have run
    saved,              \* what save_processing_result wrote
    response_data       \* what upload_file returned

VARIABLES
    column_mappings,    \* table column_mappings, in insertion order
    saves,              \* the save_mapping call of each connection
    got,                \* history: the last get_bank_mapping and what it returned
    concurrent,         \* whether calls of the column mapper may overlap
    mops                \* number of column mapper calls made so far

VARIABLES
    png_size,           \* len(pix.tobytes("png")) of the page
    jpeg_size,          \* bytes img.save writes at each JPEG quality
    quality,            \* local "quality" of the JPEG loop
    output,             \* the BytesIO buffer: size written and the quality it was made at
    img_data,           \* what images.append receives for the page
    qualities,              \* history: the qualities img.save was called with
    rpc                 \* position in the loop body of _convert_pdf_to_images

VARIABLES
    rc,                 \* the record_correction call of each connection
    unique_triple       \* whether learning_patterns has a unique key on the triple

learnV == <<correction_history, learning_patterns, kana_dictionary, _cache, lpc, todo,
            corrected_transactions, bank_name, last, taught, ops>>

mapV == <<column_mappings, saves, got, concurrent, mops>>

\* what process_document and upload_file only read or never touch
rasterV == <<png_size, jpeg_size, quality, output, img_data, qualities, rpc>>

callV == <<rc, unique_triple>>

inputV == <<keys, image_data, sink, mapV, rasterV, callV>>

pdfV == <<images, i, all_transactions, total_confidence>>

pageV == <<quality_score, claude_result, gpt4v_result, pending, page_result>>

histV == <<page_results, calls, replies, progress_log, undelivered, raster_failed>>

outV == <<result, status>>

procV == <<keys, image_data, sink, pc, images, i, all_transactions, total_confidence,
           quality_score, claude_result, gpt4v_result, pending, page_result,
           page_results, calls, replies, progress_log, undelivered, raster_failed,
           result, status, upc, upload_result, saved, response_data>>

runV == <<procV, mapV, rasterV, callV>>

upV == <<upc, upload_result, saved, response_data>>

vars == <<runV, learnV>>

NoResult == ProcessingResult(<<>>, Rat(0, 1), "none", NoneR, NoneR, NoneR)

\* the response model of main.py
Response(status_code, transactions, confidence_score) ==
    [status_code |-> status_code, transactions |-> transactions,
     confidence_score |-> confidence_score]

NoResponse == Response(0, <<>>, Rat(0, 1))

InitRun ==
    /\ keys \in KeyConfigs
    /\ image_data \in Docs
    /\ sink \in Sinks
    /\ pc = "detect"
    /\ images = <<>>
    /\ i = 0
    /\ all_transactions = <<>>
    /\ total_confidence = 0
    /\ quality_score = 0
    /\ claude_result = NotADict
    /\ gpt4v_result = NotADict
    /\ pending = {}
    /\ page_result = NoResult
    /\ page_results = <<>>
    /\ calls = <<>>
    /\ replies = <<>>
    /\ progress_log = <<>>
    /\ undelivered = FALSE
    /\ raster_failed = FALSE
    /\ result = NoResult
    /\ status = "running"
    /\ upc = "processing"
    /\ upload_result = NoResult
    /\ saved = NoResult
    /\ response_data = NoResponse

file_type == _detect_file_type(image_data)

\* page number that _process_single_image works on
page_num == IF file_type = "pdf" THEN i + 1 ELSE 1

\* what the providers can answer: a request made with a client that holds no
\* key, an empty one or the placeholder is rejected, which the adapters see
\* as an exception of the API call
ClaudeReplies == IF keys.anthropic = "set" THEN AReplies(image_data) ELSE {ApiError}

Gpt4vReplies == IF keys.openai = "set" THEN BReplies(image_data) ELSE {ApiError}

ValidatorReplies == IF keys.openai = "set" THEN VReplies(image_data) ELSE {ApiError}

\* "if progress_callback: await progress_callback(..., progress=p)": an absent
\* sink is not called; a call is delivered or raises
Delivered == IF sink = "present" THEN {TRUE, FALSE} ELSE {TRUE}

Notify(p, ok) ==
    /\ progress_log' = IF sink = "absent" THEN progress_log ELSE Append(progress_log, p)
    /\ undelivered' = (undelivered \/ ~ok)

\* an exception that leaves the try block of the PDF branch ends in its
\* except clause, which returns the error result
PdfExcept ==
    /\ result' = ErrorResult
    /\ status' = "returned"
    /\ pc' = "done"

\* an exception that leaves _process_single_image reaches process_document:
\* inside the PDF branch it is caught, outside it leaves process_document
Propagate ==
    IF file_type = "pdf" THEN PdfExcept
    ELSE /\ status' = "raised"
         /\ pc' = "done"
         /\ UNCHANGED result

Done(op, reply, candidate) ==
    [op |-> op, page |-> page_num, kind |-> reply.kind, candidate |-> candidate]

Call(op, arg) == [op |-> op, page |-> page_num, returned |-> Len(page_results), arg |-> arg]

\* ------------------------------------------------------------------------
\* process_document
\* ------------------------------------------------------------------------
progV == <<progress_log, undelivered>>

\* variant: the transactions of the page are put in front
Extend_front(transactions, more) == more \o transactions

\* all_transactions.extend(page_result.transactions)
Extend(transactions, more) == transactions \o more

\* lines 95-103 and 163: detect the kind; a PDF enters the try block and
\* announces the conversion, anything else goes to _process_single_image
DetectFileType ==
    /\ pc = "detect"
    /\ IF file_type = "pdf"
       THEN \E ok \in Delivered :
              /\ Notify(5, ok)
              /\ IF ok THEN pc' = "convert" /\ UNCHANGED outV ELSE PdfExcept
       ELSE /\ pc' = "check_keys"
            /\ UNCHANGED <<progV, outV>>
    /\ UNCHANGED <<learnV, upV, inputV, pdfV, pageV, page_results, calls, replies, raster_failed>>

\* _convert_pdf_to_images: fitz.open, then one iteration of the page loop;
\* every failure is re-raised and lands in the except clause of the caller
ConvertPage ==
    /\ pc = "convert"
    /\ IF ~image_data.well_formed
       THEN /\ PdfExcept
            /\ raster_failed' = TRUE
            /\ UNCHANGED <<images, progV>>
       ELSE /\ Len(images) < image_data.pages
            /\ \E ok \in Delivered :
                 /\ Notify((Len(images) * 5) \div image_data.pages, ok)
                 /\ IF ok /\ image_data.bad_page # Len(images) + 1
                    THEN /\ images' = Append(images, Len(images) + 1)
                         /\ UNCHANGED <<pc, outV, raster_failed>>
                    ELSE /\ PdfExcept
                         /\ raster_failed' = (raster_failed \/ ok)
                         /\ UNCHANGED images
    /\ UNCHANGED <<learnV, upV, inputV, i, all_transactions, total_confidence, pageV,
                   page_results, calls, replies>>

\* lines 106-113: all pages are converted
ConvertDone ==
    /\ pc = "convert"
    /\ image_data.well_formed
    /\ Len(images) = image_data.pages
    /\ \E ok \in Delivered :
         /\ Notify(10, ok)
         /\ IF ok
            THEN /\ pc' = "page_loop"
                 /\ i' = 0
                 /\ all_transactions' = <<>>
                 /\ total_confidence' = 0
                 /\ UNCHANGED outV
            ELSE PdfExcept /\ UNCHANGED <<i, all_transactions, total_confidence>>
    /\ UNCHANGED <<learnV, upV, inputV, images, pageV, page_results, calls, replies, raster_failed>>

progress_percent == 10 + (i * 80) \div Len(images)

\* lines 115-123: the next page is announced and handed to _process_single_image
AnalyzePage ==
    /\ pc = "page_loop"
    /\ i < Len(images)
    /\ \E ok \in Delivered :
         /\ Notify(progress_percent, ok)
         /\ IF ok THEN pc' = "check_keys" /\ UNCHANGED outV ELSE PdfExcept
    /\ UNCHANGED <<learnV, upV, inputV, pdfV, pageV, page_results, calls, replies, raster_failed>>

\* lines 125-131: the result of the page is accumulated; the locals of
\* _process_single_image are gone
PageCompleted ==
    /\ pc = "page_return"
    /\ file_type = "pdf"
    /\ all_transactions' = Extend(all_transactions, page_result.transactions)
    /\ total_confidence' = total_confidence + page_result.confidence_score.num
    /\ \E ok \in Delivered :
         /\ Notify(progress_percent + 80 \div Len(images), ok)
         /\ IF ok
            THEN /\ pc' = "page_loop"
                 /\ i' = i + 1
                 /\ UNCHANGED outV
            ELSE PdfExcept /\ UNCHANGED i
    /\ quality_score' = 0
    /\ claude_result' = NotADict
    /\ gpt4v_result' = NotADict
    /\ UNCHANGED <<learnV, upV, inputV, images, pending, page_result, page_results, calls, replies,
                   raster_failed>>

\* lines 134-135
Finalize ==
    /\ pc = "page_loop"
    /\ i = Len(images)
    /\ \E ok \in Delivered :
         /\ Notify(95, ok)
         /\ IF ok THEN pc' = "complete" /\ UNCHANGED outV ELSE PdfExcept
    /\ UNCHANGED <<learnV, upV, inputV, pdfV, pageV, page_results, calls, replies, raster_failed>>

avg_confidence == IF Len(images) > 0 THEN Rat(total_confidence, Len(images)) ELSE Rat(0, 1)

\* lines 138-149
Complete ==
    /\ pc = "complete"
    /\ \E ok \in Delivered :
         /\ Notify(100, ok)
         /\ IF ok
            THEN /\ result' = ProcessingResult(all_transactions, avg_confidence, "multi_page_staged",
                                               avg_confidence, avg_confidence, Rat(95, 100))
                 /\ status' = "returned"
                 /\ pc' = "done"
            ELSE PdfExcept
    /\ UNCHANGED <<learnV, upV, inputV, pdfV, pageV, page_results, calls, replies, raster_failed>>

\* line 163: the result of the single image is the result of the document
ReturnSingleImage ==
    /\ pc = "page_return"
    /\ file_type # "pdf"
    /\ result' = page_result
    /\ status' = "returned"
    /\ pc' = "done"
    /\ UNCHANGED <<learnV, upV, inputV, pdfV, pageV, histV>>

\* ------------------------------------------------------------------------
\* _process_single_image
\* ------------------------------------------------------------------------
\* variant: a page without transactions is an exception
FinishPage_strict(outcome) ==
    IF outcome.raised \/ outcome.value.transactions = <<>>
    THEN Propagate /\ UNCHANGED <<page_result, page_results>>
    ELSE /\ page_result' = outcome.value
         /\ page_results' = Append(page_results, outcome.value)
         /\ pc' = "page_return"
         /\ UNCHANGED outV

\* _process_single_image ends: it returns a result or lets the exception out
FinishPage(outcome) ==
    IF outcome.raised
    THEN Propagate /\ UNCHANGED <<page_result, page_results>>
    ELSE /\ page_result' = outcome.value
         /\ page_results' = Append(page_results, outcome.value)
         /\ pc' = "page_return"
         /\ UNCHANGED outV

KeyConfigured == ValidKey(keys.openai) \/ ValidKey(keys.anthropic)

\* lines 169-189: no usable key, the demonstration data is returned
UseMockData ==
    /\ pc = "check_keys"
    /\ ~KeyConfigured
    /\ FinishPage(Returned(_create_mock_result))
    /\ UNCHANGED <<learnV, upV, inputV, pdfV, quality_score, claude_result, gpt4v_result, pending,
                   calls, replies, progV, raster_failed>>

\* lines 191-204 with the shipped estimator
AssessImageQuality ==
    /\ pc = "check_keys"
    /\ KeyConfigured
    /\ quality_score' = _assess_image_quality(page_num)
    /\ calls' = Append(calls, Call("assess_image_quality", NotADict))
    /\ pc' = StrategyFor(quality_score')
    /\ UNCHANGED <<learnV, upV, inputV, pdfV, claude_result, gpt4v_result, pending, page_result,
                   page_results, replies, progV, raster_failed, outV>>

\* lines 191-204 with the estimator replaced by one that can return any score
AssessReplacedEstimator ==
    /\ pc = "check_keys"
    /\ KeyConfigured
    /\ quality_score' \in Qualities(image_data)
    /\ calls' = Append(calls, Call("assess_image_quality", NotADict))
    /\ pc' = StrategyFor(quality_score')
    /\ UNCHANGED <<learnV, upV, inputV, pdfV, claude_result, gpt4v_result, pending, page_result,
                   page_results, replies, progV, raster_failed, outV>>

\* _claude_only_processing
ClaudeOnlyProcessing ==
    /\ pc = "claude_only"
    /\ \E reply \in ClaudeReplies :
         /\ claude_result' = _claude_extract(reply)
         /\ calls' = Append(calls, Call("claude_extract", NotADict))
         /\ replies' = Append(replies, Done("claude_extract", reply, claude_result'))
         /\ FinishPage(FallBackToMock(ClaudeOnlyResult(claude_result')))
    /\ UNCHANGED <<learnV, upV, inputV, pdfV, quality_score, gpt4v_result, pending, progV,
                   raster_failed>>

\* _staged_processing, step 1
StagedExtract ==
    /\ pc = "staged"
    /\ \E reply \in ClaudeReplies :
         /\ claude_result' = _claude_extract(reply)
         /\ calls' = Append(calls, Call("claude_extract", NotADict))
         /\ replies' = Append(replies, Done("claude_extract", reply, claude_result'))
    /\ pc' = "staged_validate"
    /\ UNCHANGED <<learnV, upV, inputV, pdfV, quality_score, gpt4v_result, pending, page_result,
                   page_results, progV, raster_failed, outV>>

\* _staged_processing, steps 2 and 3
StagedValidate ==
    /\ pc = "staged_validate"
    /\ \E reply \in ValidatorReplies :
         /\ gpt4v_result' = _gpt4v_validate(reply, claude_result)
         /\ calls' = Append(calls, Call("gpt4v_validate", claude_result))
         /\ replies' = Append(replies, Done("gpt4v_validate", reply, gpt4v_result'))
         /\ FinishPage(FallBackToMock(_merge_results(claude_result, gpt4v_result', "staged")))
    /\ UNCHANGED <<learnV, upV, inputV, pdfV, quality_score, claude_result, pending, progV,
                   raster_failed>>

\* _parallel_processing: asyncio.gather starts both coroutines, each runs
\* up to its provider call
ParallelStart ==
    /\ pc = "parallel"
    /\ calls' = calls \o <<Call("claude_extract", NotADict), Call("gpt4v_extract", NotADict)>>
    /\ pending' = {"claude", "gpt4v"}
    /\ pc' = "gather"
    /\ UNCHANGED <<learnV, upV, inputV, pdfV, quality_score, claude_result, gpt4v_result, page_result,
                   page_results, replies, progV, raster_failed, outV>>

ClaudeReturns ==
    /\ pc = "gather"
    /\ "claude" \in pending
    /\ \E reply \in ClaudeReplies :
         /\ claude_result' = _claude_extract(reply)
         /\ replies' = Append(replies, Done("claude_extract", reply, claude_result'))
    /\ pending' = pending \ {"claude"}
    /\ UNCHANGED <<learnV, upV, inputV, pdfV, pc, quality_score, gpt4v_result, page_result,
                   page_results, calls, progV, raster_failed, outV>>

Gpt4vReturns ==
    /\ pc = "gather"
    /\ "gpt4v" \in pending
    /\ \E reply \in Gpt4vReplies :
         /\ gpt4v_result' = _gpt4v_extract(reply)
         /\ replies' = Append(replies, Done("gpt4v_extract", reply, gpt4v_result'))
    /\ pending' = pending \ {"gpt4v"}
    /\ UNCHANGED <<learnV, upV, inputV, pdfV, pc, quality_score, claude_result, page_result,
                   page_results, calls, progV, raster_failed, outV>>

\* variant: the merge starts as soon as one of the two results is in
ParallelMerge_first_completed ==
    /\ pc = "gather"
    /\ pending # {"claude", "gpt4v"}
    /\ FinishPage(FallBackToMock(_merge_results(claude_result, gpt4v_result, "parallel")))
    /\ UNCHANGED <<learnV, upV, inputV, pdfV, quality_score, claude_result, gpt4v_result, pending,
                   calls, replies, progV, raster_failed>>

\* both results are in: _merge_results
ParallelMerge ==
    /\ pc = "gather"
    /\ pending = {}
    /\ FinishPage(FallBackToMock(_merge_results(claude_result, gpt4v_result, "parallel")))
    /\ UNCHANGED <<learnV, upV, inputV, pdfV, quality_score, claude_result, gpt4v_result, pending,
                   calls, replies, progV, raster_failed>>

\* ------------------------------------------------------------------------
\* Learning service (backend/services/learning_service.py): inputs
\* ------------------------------------------------------------------------
MaxOps == 3

\* number of earlier observations of one correction that the service may
\* start with: enough for the next one to reach the cap of the confidence
SeedRepeats == 7

\* number of observations after which a pattern is above the threshold of
\* _apply_patterns (0.5 + 2 * 0.08 = 0.66)
LearnedRepeats == 3

\* bank_name None is "NULL", as is a NULL bank_specific column
Banks == {"NULL", "bankA"}

K1 == <<"hk_ka">>

K2 == <<"hk_ka", "hk_dk">>

\* original_data / corrected_data of a correction: a dictionary that may
\* hold a description, a date and a withdrawal; nan says that it holds a
\* float NaN, whose str() form ast.literal_eval cannot read back
Record(description, date, withdrawal, nan) ==
    [description |-> description, date |-> date, withdrawal |-> withdrawal, nan |-> nan]

Corrections ==
    {[original |-> Record(k, "01/15", JAbsent, FALSE),
      corrected |-> Record(c, "01/15", JAbsent, FALSE),
      correction_type |-> "cell_edit"] : k \in {K1, K2}, c \in {<<"fk_ka">>, <<"fk_ga">>}}
    \cup {[original |-> Record(K1, "01/15", JNum(100), FALSE),
           corrected |-> Record(<<"fk_ka">>, "01/15", JNum(100), FALSE),
           correction_type |-> "row_delete"],
          [original |-> Record(<<"x">>, AbsentS, JAbsent, FALSE),
           corrected |-> Record(<<"fk_ga">>, AbsentS, JAbsent, FALSE),
           correction_type |-> "row_add"],
          [original |-> Record(K2, "01/15", JNum(100), TRUE),
           corrected |-> Record(K2, "01/15", JNum(200), TRUE),
           correction_type |-> "cell_edit"],
          [original |-> Record(AbsentText, "01/15", JAbsent, FALSE),
           corrected |-> Record(AbsentText, "01/16", JAbsent, FALSE),
           correction_type |-> "cell_edit"],
          [original |-> Record(<<"x">>, AbsentS, JAbsent, FALSE),
           corrected |-> Record(<<"x">>, AbsentS, JAbsent, FALSE),
           correction_type |-> "cell_edit"]}

\* the correction the service may have seen SeedRepeats times before
SeedCorrection ==
    [original |-> Record(AbsentText, "01/15", JAbsent, FALSE),
     corrected |-> Record(AbsentText, "01/16", JAbsent, FALSE),
     correction_type |-> "cell_edit"]

\* correction_history when the service starts: empty, or left by earlier
\* calls: one date correction seen SeedRepeats times, or corrections seen
\* often enough to be applied: a description with a NaN amount beside it,
\* two descriptions that chain, and an amount
SeedHistories ==
    LET Edit(description, amount, nan, to_description, to_amount, type) ==
            [original |-> Record(description, AbsentS, amount, nan),
             corrected |-> Record(to_description, AbsentS, to_amount, nan),
             correction_type |-> type]
        UnreadableCorrection == Edit(<<"x">>, JNum(100), TRUE, <<"fk_ga">>, JNum(100), "cell_edit")
        FirstCorrection == Edit(<<"x">>, JAbsent, FALSE, <<"fk_ga">>, JAbsent, "row_add")
        SecondCorrection == Edit(<<"fk_ga">>, JAbsent, FALSE, <<"fk_ka">>, JAbsent, "cell_edit")
        AmountCorrection == Edit(<<"x">>, JNum(100), FALSE, <<"x">>, JNum(200), "cell_edit")
    IN  {<<>>,
         [m \in 1..SeedRepeats |-> SeedCorrection],
         [m \in 1..(LearnedRepeats + 1) |-> UnreadableCorrection]
             \o [m \in 1..LearnedRepeats |-> FirstCorrection]
             \o [m \in 1..LearnedRepeats |-> SecondCorrection]
             \o [m \in 1..LearnedRepeats |-> AmountCorrection]}

\* a transaction dictionary as main.py builds it, with one extra column
Transaction(description) ==
    [date |-> "01/15", description |-> description, withdrawal |-> JNull,
     deposit |-> JNum(100), balance |-> JNum(1000), confidence_score |-> 9000,
     extra |-> {<<"category", "food">>}]

TransactionLists ==
    {<<Transaction(K1)>>, <<Transaction(K2)>>, <<Transaction(<<"x", "hk_ka">>)>>,
     <<Transaction(<<"fk_ka">>), Transaction(K2)>>,
     <<Transaction(<<"x">>), Transaction(<<"y", "x">>)>>}

KanaRow(kana_text, converted_text, bank_specific, confidence_score, usage_count) ==
    [kana_text |-> kana_text, converted_text |-> converted_text,
     bank_specific |-> bank_specific, confidence_score |-> confidence_score,
     usage_count |-> usage_count]

\* contents of kana_dictionary when the service starts
SeedDictionaries ==
    {{}, {KanaRow(K1, <<"fk_ka">>, "NULL", 9000, 5)},
     {KanaRow(K1, <<"fk_ka">>, "NULL", 9000, 5), KanaRow(K2, <<"fk_ga">>, "bankA", 9000, 2)},
     {KanaRow(K1, <<"fk_ka">>, "NULL", 6000, 2)}}

\* column defaults of the tables (db/migrations)
DefaultFrequency == 1

DefaultPatternConfidence == 5000

DefaultUsageCount == 0

\* ------------------------------------------------------------------------
\* Learning service: functions
\* ------------------------------------------------------------------------
\* re.search(r'[ｦ-ﾟ]+', text)
\* variant: every non-empty text counts as kana
_contains_kana_any(text) == Len(text) > 0

_contains_kana(text) == \E n \in 1..Len(text) : text[n] \in HalfKana

_is_kana(text) == _contains_kana(text)

\* str(dict) and ast.literal_eval: the text of a dictionary reads back as
\* the dictionary unless it holds a value whose repr is no literal
PyStr(d) == [repr |-> d]

literal_eval(p) == IF p.repr.nan THEN Raised ELSE Returned(p.repr)

HasKey(text) == text # AbsentText

\* dict.get('description', '')
DescriptionOr(d) == IF d.description = AbsentText THEN <<>> ELSE d.description

\* variant: the date is looked at before the amount columns
_determine_pattern_type_date_first(original, corrected) ==
    IF HasKey(original.description) /\ HasKey(corrected.description)
       /\ original.description # corrected.description
    THEN "description"
    ELSE IF original.date # AbsentS THEN "date"
         ELSE IF original.withdrawal.k # "absent" THEN "amount"
              ELSE "none"

_determine_pattern_type(original, corrected) ==
    IF HasKey(original.description) /\ HasKey(corrected.description)
       /\ original.description # corrected.description
    THEN "description"
    ELSE IF original.withdrawal.k # "absent" THEN "amount"
         ELSE IF original.date # AbsentS THEN "date"
              ELSE "none"

\* the permutations of a finite set, and those in which no element comes
\* after one it must precede (ORDER BY leaves the order of ties open)
RECURSIVE Perms(_)
Perms(S) ==
    IF S = {} THEN {<<>>}
    ELSE UNION {{<<x>> \o q : q \in Perms(S \ {x})} : x \in S}

Orderings(S, Before(_, _)) ==
    {q \in Perms(S) : \A a, b \in 1..Len(q) : a < b => ~Before(q[b], q[a])}

\* variant: the UPDATE adds 0.08 without LEAST
_update_learning_pattern_uncapped(patterns, pattern_type, original, corrected) ==
    LET existing == {n \in 1..Len(patterns) :
                        /\ patterns[n].pattern_type = pattern_type
                        /\ patterns[n].original_pattern = original
                        /\ patterns[n].corrected_pattern = corrected}
    IN  IF existing # {}
        THEN LET n == CHOOSE m \in existing : \A o \in existing : m <= o
             IN  [patterns EXCEPT ![n].frequency = @ + 1,
                                  ![n].confidence_score = @ + 800]
        ELSE Append(patterns, [pattern_type |-> pattern_type,
                               original_pattern |-> original,
                               corrected_pattern |-> corrected,
                               frequency |-> DefaultFrequency,
                               confidence_score |-> DefaultPatternConfidence])

\* _update_learning_pattern: SELECT the triple, then UPDATE it or INSERT it
_update_learning_pattern(patterns, pattern_type, original, corrected) ==
    LET existing == {n \in 1..Len(patterns) :
                        /\ patterns[n].pattern_type = pattern_type
                        /\ patterns[n].original_pattern = original
                        /\ patterns[n].corrected_pattern = corrected}
    IN  IF existing # {}
        THEN LET n == CHOOSE m \in existing : \A o \in existing : m <= o
             IN  [patterns EXCEPT ![n].frequency = @ + 1,
                                  ![n].confidence_score = Min(10000, @ + 800)]
        ELSE Append(patterns, [pattern_type |-> pattern_type,
                               original_pattern |-> original,
                               corrected_pattern |-> corrected,
                               frequency |-> DefaultFrequency,
                               confidence_score |-> DefaultPatternConfidence])

\* variant: the INSERT overwrites the entry of the kana_text
learn_pattern_overwrite(dictionary, kana_text, converted_text, bank) ==
    LET existing == {r \in dictionary : /\ r.kana_text = kana_text
                                        /\ r.converted_text = converted_text
                                        /\ r.bank_specific = bank}
    IN  IF existing # {}
        THEN {IF r \in existing
              THEN [r EXCEPT !.usage_count = @ + 1,
                             !.confidence_score = Min(10000, @ + 500)]
              ELSE r : r \in dictionary}
        ELSE {r \in dictionary : r.kana_text # kana_text}
                 \cup {KanaRow(kana_text, converted_text, bank, 5000, DefaultUsageCount)}

\* KanaConverter.learn_pattern: reinforce the same (kana, converted, bank),
\* else INSERT ... ON CONFLICT (kana_text) DO NOTHING
learn_pattern(dictionary, kana_text, converted_text, bank) ==
    LET existing == {r \in dictionary : /\ r.kana_text = kana_text
                                        /\ r.converted_text = converted_text
                                        /\ r.bank_specific = bank}
    IN  IF existing # {}
        THEN {IF r \in existing
              THEN [r EXCEPT !.usage_count = @ + 1,
                             !.confidence_score = Min(10000, @ + 500)]
              ELSE r : r \in dictionary}
        ELSE IF \E r \in dictionary : r.kana_text = kana_text
             THEN dictionary
             ELSE dictionary \cup {KanaRow(kana_text, converted_text, bank, 5000, DefaultUsageCount)}

\* _learn_from_correction: the pair goes to the kana learner for cell_edit and
\* row_add, then the whole records go to the pattern table
KanaAfterCorrection(dictionary, c) ==
    LET orig_desc == DescriptionOr(c.original)
        corr_desc == DescriptionOr(c.corrected)
    IN  IF /\ c.correction_type \in {"cell_edit", "row_add"}
           /\ orig_desc # corr_desc
           /\ _is_kana(orig_desc)
        THEN learn_pattern(dictionary, orig_desc, corr_desc, "NULL")
        ELSE dictionary

PatternsAfterCorrection(patterns, c) ==
    LET pattern_type == _determine_pattern_type(c.original, c.corrected)
    IN  IF pattern_type # "none"
        THEN _update_learning_pattern(patterns, pattern_type, PyStr(c.original), PyStr(c.corrected))
        ELSE patterns

\* the pattern table after record_correction calls with the corrections of
\* history, in that order
RECURSIVE PatternsAfterHistory(_)
PatternsAfterHistory(history) ==
    IF Len(history) = 0 THEN <<>>
    ELSE PatternsAfterCorrection(PatternsAfterHistory(SubSeq(history, 1, Len(history) - 1)),
                                 history[Len(history)])

\* f"{text}:{bank_name}"
cache_key(text, bank) == text \o <<":", bank>>

\* _lookup_conversion: the bank's entry first ("if bank_name"), then the
\* generic one of highest confidence and usage; <<>> stands for no value
_lookup_conversion(dictionary, text, bank) ==
    LET specific == {r \in dictionary : r.kana_text = text /\ r.bank_specific = bank}
        generic == {r \in dictionary : r.kana_text = text /\ r.bank_specific = "NULL"}
        Best(S) == CHOOSE r \in S : \A o \in S :
                       \/ r.confidence_score > o.confidence_score
                       \/ r.confidence_score = o.confidence_score /\ r.usage_count >= o.usage_count
    IN  IF bank # "NULL" /\ specific # {} /\ Len((CHOOSE r \in specific : TRUE).converted_text) > 0
        THEN (CHOOSE r \in specific : TRUE).converted_text
        ELSE IF generic # {} THEN Best(generic).converted_text ELSE <<>>

\* rows of _partial_conversion: confidence above 0.6, longest kana_text
\* first, then highest usage_count
PartialBefore(r, o) ==
    \/ Len(r.kana_text) > Len(o.kana_text)
    \/ Len(r.kana_text) = Len(o.kana_text) /\ r.usage_count > o.usage_count

PartialOrders(dictionary) ==
    Orderings({r \in dictionary : r.confidence_score > 6000}, PartialBefore)

RECURSIVE _partial_conversion(_, _)
_partial_conversion(patterns, text) ==
    IF Len(patterns) = 0 THEN text
    ELSE _partial_conversion(Tail(patterns),
             IF Contains(text, patterns[1].kana_text)
             THEN Replace(text, patterns[1].kana_text, patterns[1].converted_text)
             ELSE text)

\* _update_usage_count: every row of the kana_text
_update_usage_count(dictionary, kana_text) ==
    {IF r.kana_text = kana_text THEN [r EXCEPT !.usage_count = @ + 1] ELSE r : r \in dictionary}

\* KanaConverter.convert; order is the row order the partial query returned
convert(cache, dictionary, text, bank, order) ==
    IF ~_contains_kana(text)
    THEN [ret |-> text, cache |-> cache, dictionary |-> dictionary]
    ELSE IF cache_key(text, bank) \in DOMAIN cache
         THEN [ret |-> cache[cache_key(text, bank)], cache |-> cache, dictionary |-> dictionary]
         ELSE LET found == _lookup_conversion(dictionary, text, bank)
                  converted == _partial_conversion(order, text)
                  Put(v) == [k \in DOMAIN cache \cup {cache_key(text, bank)} |->
                                IF k = cache_key(text, bank) THEN v ELSE cache[k]]
              IN  IF Len(found) > 0
                  THEN [ret |-> found, cache |-> Put(found),
                        dictionary |-> _update_usage_count(dictionary, text)]
                  ELSE [ret |-> converted, cache |-> Put(converted), dictionary |-> dictionary]

\* rows of _apply_patterns: confidence above 0.6, highest frequency first,
\* at most 100
PatternBefore(r, o) == r.frequency > o.frequency

\* variant: the query has no condition on the confidence
PatternOrders_unfiltered(patterns) ==
    LET rows == 1..Len(patterns)
        ByFrequency(a, b) == PatternBefore(patterns[a], patterns[b])
    IN  {[n \in 1..Min(Len(q), 100) |-> patterns[q[n]]] : q \in Orderings(rows, ByFrequency)}

PatternOrders(patterns) ==
    LET rows == {n \in 1..Len(patterns) : patterns[n].confidence_score > 6000}
        ByFrequency(a, b) == PatternBefore(patterns[a], patterns[b])
    IN  {[n \in 1..Min(Len(q), 100) |-> patterns[q[n]]] : q \in Orderings(rows, ByFrequency)}

\* variant: an exact match takes the pattern's amount along
_try_apply_pattern_update(transaction, original, corrected, pattern_type) ==
    LET original_dict == literal_eval(original)
        corrected_dict == literal_eval(corrected)
    IN  IF original_dict.raised \/ corrected_dict.raised THEN transaction
        ELSE IF /\ pattern_type = "description"
                /\ transaction.description = original_dict.value.description
             THEN [transaction EXCEPT !.description = corrected_dict.value.description,
                                      !.withdrawal = corrected_dict.value.withdrawal]
             ELSE transaction

\* _try_apply_pattern: the elif of the source repeats the condition of the if
_try_apply_pattern(transaction, original, corrected, pattern_type) ==
    LET original_dict == literal_eval(original)
        corrected_dict == literal_eval(corrected)
        DescriptionPattern == /\ pattern_type = "description"
                              /\ HasKey(original_dict.value.description)
                              /\ HasKey(transaction.description)
    IN  IF original_dict.raised \/ corrected_dict.raised THEN transaction
        ELSE IF DescriptionPattern
             THEN IF /\ transaction.description = original_dict.value.description
                     /\ HasKey(corrected_dict.value.description)
                  THEN [transaction EXCEPT !.description = corrected_dict.value.description]
                  ELSE transaction
             ELSE IF DescriptionPattern
                  THEN IF /\ Contains(transaction.description, original_dict.value.description)
                          /\ HasKey(corrected_dict.value.description)
                       THEN [transaction EXCEPT !.description =
                                Replace(transaction.description,
                                            original_dict.value.description,
                                            corrected_dict.value.description)]
                       ELSE transaction
                  ELSE transaction

\* variant: the handler names SyntaxError only
Handled_syntax_only == {"SyntaxError"}

\* except (ValueError, SyntaxError)
Handled == {"ValueError", "SyntaxError"}

\* an exception of _try_apply_pattern that its handler lets through;
\* ast.literal_eval raises ValueError on nan, which is a name and no literal
PatternEscapes(row) ==
    LET literal_eval_error(p) == IF literal_eval(p).raised THEN "ValueError" ELSE "none"
    IN  \E p \in {row.original_pattern, row.corrected_pattern} :
            literal_eval_error(p) \notin Handled \cup {"none"}

RECURSIVE _apply_patterns(_, _)
_apply_patterns(patterns, transaction) ==
    IF Len(patterns) = 0 THEN transaction
    ELSE _apply_patterns(Tail(patterns),
             _try_apply_pattern(transaction, patterns[1].original_pattern,
                                patterns[1].corrected_pattern, patterns[1].pattern_type))

\* ------------------------------------------------------------------------
\* Learning service: calls
\* ------------------------------------------------------------------------
NoCall == [op |-> "none", text |-> <<>>, bank |-> "NULL", ret |-> <<>>,
           input |-> <<>>, output |-> <<>>, id |-> 0, tried |-> <<>>, converted |-> <<>>]

InitLearn ==
    /\ correction_history \in SeedHistories
    /\ learning_patterns = PatternsAfterHistory(correction_history)
    /\ kana_dictionary \in (IF Len(correction_history) = 0 THEN SeedDictionaries ELSE {{}})
    /\ _cache = <<>>
    /\ lpc = "idle"
    /\ todo = <<>>
    /\ corrected_transactions = <<>>
    /\ bank_name = "NULL"
    /\ last = NoCall
    /\ taught = {}
    /\ ops = IF Len(correction_history) = 0 THEN 0 ELSE 1

\* variant: the record is written only when a pattern is derived from it
InsertCorrection_when_learned(history, c) ==
    IF _determine_pattern_type(c.original, c.corrected) = "none"
    THEN history
    ELSE Append(history, c)

\* INSERT INTO correction_history ... RETURNING id: a row's id is its
\* position in the table
InsertCorrection(history, c) == Append(history, c)

\* record_correction: the INSERT into correction_history, then _learn_from_correction
RecordCorrection ==
    /\ lpc = "idle"
    /\ ops < MaxOps
    /\ \E c \in Corrections :
         /\ correction_history' = InsertCorrection(correction_history, c)
         /\ kana_dictionary' = KanaAfterCorrection(kana_dictionary, c)
         /\ learning_patterns' = PatternsAfterCorrection(learning_patterns, c)
         /\ taught' = IF /\ c.correction_type = "cell_edit"
                         /\ DescriptionOr(c.original) # DescriptionOr(c.corrected)
                         /\ _is_kana(DescriptionOr(c.original))
                         /\ ~\E r \in kana_dictionary : r.kana_text = DescriptionOr(c.original)
                      THEN taught \cup {<<DescriptionOr(c.original), DescriptionOr(c.corrected)>>}
                      ELSE taught
         /\ last' = [NoCall EXCEPT !.op = "record_correction",
                                   !.text = DescriptionOr(c.original),
                                   !.ret = DescriptionOr(c.corrected),
                                   !.id = Len(correction_history')]
    /\ ops' = ops + 1
    /\ UNCHANGED <<runV, _cache, lpc, todo, corrected_transactions, bank_name>>

\* POST /kana-dictionary: learn_pattern called with a bank
LearnKanaEntry ==
    /\ lpc = "idle"
    /\ ops < MaxOps
    /\ \E e \in {<<K1, <<"fk_ka">>, "bankA">>, <<K2, <<"fk_ga">>, "NULL">>,
                 <<K2, <<>>, "NULL">>, <<K1, <<"fk_ka">>, "NULL">>} :
         /\ kana_dictionary' = learn_pattern(kana_dictionary, e[1], e[2], e[3])
         /\ last' = [NoCall EXCEPT !.op = "learn_pattern", !.text = e[1], !.ret = e[2],
                                   !.bank = e[3]]
    /\ ops' = ops + 1
    /\ UNCHANGED <<runV, correction_history, learning_patterns, _cache, lpc, todo,
                   corrected_transactions, bank_name, taught>>

\* KanaConverter.convert called on its own
ConvertKana ==
    /\ lpc = "idle"
    /\ ops < MaxOps
    /\ \E text \in {K1, K2, <<"fk_ka">>}, bank \in Banks,
          order \in PartialOrders(kana_dictionary) :
         LET r == convert(_cache, kana_dictionary, text, bank, order)
         IN  /\ _cache' = r.cache
             /\ kana_dictionary' = r.dictionary
             /\ last' = [NoCall EXCEPT !.op = "convert", !.text = text, !.bank = bank,
                                       !.ret = r.ret]
    /\ ops' = ops + 1
    /\ UNCHANGED <<runV, correction_history, learning_patterns, lpc, todo,
                   corrected_transactions, bank_name, taught>>

\* apply_learned_corrections is entered
ApplyBegin ==
    /\ lpc = "idle"
    /\ ops < MaxOps
    /\ \E transactions \in TransactionLists, bank \in Banks :
         /\ todo' = transactions
         /\ bank_name' = bank
         /\ last' = [NoCall EXCEPT !.op = "applying", !.bank = bank, !.input = transactions]
    /\ corrected_transactions' = <<>>
    /\ lpc' = "applying"
    /\ ops' = ops + 1
    /\ UNCHANGED <<runV, correction_history, learning_patterns, kana_dictionary, _cache, taught>>

\* one iteration of its loop: convert the description, then _apply_patterns
ApplyStep ==
    /\ lpc = "applying"
    /\ Len(todo) > 0
    /\ \E order \in PartialOrders(kana_dictionary), patterns \in PatternOrders(learning_patterns) :
         LET transaction == Head(todo)
             r == convert(_cache, kana_dictionary, transaction.description, bank_name, order)
             converted == IF HasKey(transaction.description)
                          THEN [transaction EXCEPT !.description = r.ret]
                          ELSE transaction
         IN  /\ _cache' = IF HasKey(transaction.description) THEN r.cache ELSE _cache
             /\ kana_dictionary' = IF HasKey(transaction.description) THEN r.dictionary
                                   ELSE kana_dictionary
             /\ IF \E n \in 1..Len(patterns) : PatternEscapes(patterns[n])
                THEN /\ corrected_transactions' = <<>>
                     /\ todo' = <<>>
                     /\ lpc' = "idle"
                     /\ last' = [last EXCEPT !.op = "apply_raised", !.tried = patterns,
                                              !.converted = converted.description]
                ELSE /\ corrected_transactions' =
                            Append(corrected_transactions, _apply_patterns(patterns, converted))
                     /\ todo' = Tail(todo)
                     /\ lpc' = lpc
                     /\ last' = [last EXCEPT !.tried = patterns,
                                              !.converted = converted.description]
    /\ UNCHANGED <<runV, correction_history, learning_patterns, bank_name, taught, ops>>

\* it returns corrected_transactions
ApplyReturn ==
    /\ lpc = "applying"
    /\ Len(todo) = 0
    /\ last' = [last EXCEPT !.op = "apply_learned_corrections", !.output = corrected_transactions]
    /\ lpc' = "idle"
    /\ UNCHANGED <<runV, correction_history, learning_patterns, kana_dictionary, _cache, todo,
                   corrected_transactions, bank_name, taught, ops>>

\* ------------------------------------------------------------------------
\* _convert_pdf_to_images (llm_processor.py): the encoding of one page
\* ------------------------------------------------------------------------
\* 4 * 1024 * 1024
SizeCap == 4194304

FirstQuality == 85

QualityFloor == 30

QualityStep == 10

\* the qualities img.save can be asked for
JpegQualities == {85, 75, 65, 55, 45, 35, 25}

\* sizes of an encoding: under the cap, exactly the cap, over it
EncodedSizes == {SizeCap - 1, SizeCap, SizeCap + 1}

NoOutput == [size |-> 0, made_at |-> 0]

NoImage == [format |-> "none", size |-> 0, made_at |-> 0]

InitRaster ==
    /\ png_size \in EncodedSizes
    /\ jpeg_size \in [JpegQualities -> EncodedSizes]
    /\ quality = 0
    /\ output = NoOutput
    /\ img_data = NoImage
    /\ qualities = <<>>
    /\ rpc = "png"

RasterOff ==
    /\ png_size = 0
    /\ jpeg_size = [q \in JpegQualities |-> 0]
    /\ quality = 0
    /\ output = NoOutput
    /\ img_data = NoImage
    /\ qualities = <<>>
    /\ rpc = "off"

\* lines 43-56: the PNG is kept, or the JPEG loop is prepared
EncodePng ==
    /\ rpc = "png"
    /\ IF png_size > SizeCap
       THEN /\ quality' = FirstQuality
            /\ rpc' = "while"
            /\ UNCHANGED img_data
       ELSE /\ img_data' = [format |-> "png", size |-> png_size, made_at |-> 0]
            /\ rpc' = "append"
            /\ UNCHANGED quality
    /\ UNCHANGED <<procV, mapV, learnV, callV, png_size, jpeg_size, output, qualities>>

\* lines 57-63: one test of the loop condition and, when it holds, one body
SaveJpeg ==
    /\ rpc = "while"
    /\ IF quality > QualityFloor
       THEN /\ output' = [size |-> jpeg_size[quality], made_at |-> quality]
            /\ qualities' = Append(qualities, quality)
            /\ IF output'.size < SizeCap
               THEN rpc' = "getvalue" /\ UNCHANGED quality
               ELSE quality' = quality - QualityStep /\ UNCHANGED rpc
       ELSE /\ rpc' = "getvalue"
            /\ UNCHANGED <<output, qualities, quality>>
    /\ UNCHANGED <<procV, mapV, learnV, callV, png_size, jpeg_size, img_data>>

\* line 65: img_data = output.getvalue()
GetValue ==
    /\ rpc = "getvalue"
    /\ img_data' = [format |-> "jpeg", size |-> output.size, made_at |-> output.made_at]
    /\ rpc' = "append"
    /\ UNCHANGED <<procV, mapV, learnV, callV, png_size, jpeg_size, quality, output, qualities>>

\* ------------------------------------------------------------------------
\* ColumnMapper (backend/services/learning_service.py)
\* ------------------------------------------------------------------------
\* a row of the request: source_column, target_column and data_type;
\* NumberS is a JSON number where a column name is expected, which the
\* driver refuses as a text parameter
NumberS == "<number>"

Mapping(source_column, target_column, data_type) ==
    [source_column |-> source_column, target_column |-> target_column,
     data_type |-> data_type]

MappingLists ==
    {<<Mapping("c1", "date", "date"), Mapping("c2", "description", AbsentS)>>,
     <<Mapping("", "date", "date"), Mapping("c3", "", "text"),
       Mapping("c3", "withdrawal", "number")>>,
     <<Mapping("c4", "memo", "text"), Mapping(NumberS, "deposit", "number")>>}

MapBanks == {"bankA", "bankB"}

Connections == {1, 2}

\* mapping.get('source_column', ''), mapping.get('target_column', '') and
\* "if not source_col or not target_col"
Skipped(mapping) ==
    mapping.source_column \in {"", AbsentS} \/ mapping.target_column \in {"", AbsentS}

\* the row of the INSERT: position is the index of the mapping in the request
MappingRow(bank, mapping, position) ==
    [bank_name |-> bank, original_name |-> mapping.source_column,
     standard_name |-> mapping.target_column,
     data_type |-> IF mapping.data_type = AbsentS THEN "text" ELSE mapping.data_type,
     position |-> position]

\* variant: DELETE FROM column_mappings without the WHERE
DeleteMappings_all(table, bank) == <<>>

\* DELETE FROM column_mappings WHERE bank_name = $1
DeleteMappings(table, bank) ==
    LET Others(row) == row.bank_name # bank
    IN  SelectSeq(table, Others)

\* SELECT * FROM column_mappings WHERE bank_name = $1 ORDER BY position:
\* the orders a query can return the rows in
get_bank_mapping(table, bank) ==
    LET rows == {n \in 1..Len(table) : table[n].bank_name = bank}
        ByPosition(a, b) == table[a].position < table[b].position
    IN  {[n \in 1..Len(q) |-> table[q[n]]] : q \in Orderings(rows, ByPosition)}

NoSave == [pc |-> "idle", bank |-> "none", mappings |-> <<>>, i |-> 0, old |-> <<>>,
           alone |-> TRUE, overlap |-> FALSE]

NoGet == [bank |-> "none", rows |-> <<>>, during |-> {}]

Saving(p) == saves[p].pc \in {"delete", "insert"}

MayStart == concurrent \/ \A p \in Connections : ~Saving(p)

MaxMapOps == 3

InitMap ==
    /\ column_mappings = <<>>
    /\ saves = [p \in Connections |-> NoSave]
    /\ got = NoGet
    /\ mops = 0

\* save_mapping is entered on a connection of the pool
SaveMappingBegin(p) ==
    /\ ~Saving(p)
    /\ MayStart
    /\ mops < MaxMapOps
    /\ \E bank \in MapBanks, mappings \in MappingLists :
         LET running == {q \in Connections \ {p} : Saving(q) /\ saves[q].bank = bank}
         IN  saves' = [q \in Connections |->
                          IF q = p
                          THEN [pc |-> "delete", bank |-> bank, mappings |-> mappings, i |-> 0,
                                old |-> CHOOSE rows \in get_bank_mapping(column_mappings, bank) : TRUE,
                                alone |-> running = {}, overlap |-> running # {}]
                          ELSE IF saves[q].bank = bank
                               THEN [saves[q] EXCEPT !.alone = FALSE,
                                                     !.overlap = @ \/ q \in running]
                               ELSE saves[q]]
    /\ mops' = mops + 1
    /\ UNCHANGED <<procV, learnV, rasterV, callV, column_mappings, got, concurrent>>

\* its DELETE
SaveMappingDelete(p) ==
    /\ saves[p].pc = "delete"
    /\ column_mappings' = DeleteMappings(column_mappings, saves[p].bank)
    /\ saves' = [saves EXCEPT ![p].pc = "insert", ![p].i = 1]
    /\ UNCHANGED <<procV, learnV, rasterV, callV, got, concurrent, mops>>

\* one iteration of its loop: skip the mapping, or INSERT it, which raises
\* on a column name that is no text
SaveMappingInsert(p) ==
    /\ saves[p].pc = "insert"
    /\ saves[p].i <= Len(saves[p].mappings)
    /\ LET mapping == saves[p].mappings[saves[p].i]
       IN  IF Skipped(mapping)
           THEN /\ saves' = [saves EXCEPT ![p].i = @ + 1]
                /\ UNCHANGED column_mappings
           ELSE IF mapping.source_column = NumberS
                THEN /\ saves' = [saves EXCEPT ![p].pc = "raised"]
                     /\ UNCHANGED column_mappings
                ELSE /\ column_mappings' =
                            Append(column_mappings,
                                   MappingRow(saves[p].bank, mapping, saves[p].i))
                     /\ saves' = [saves EXCEPT ![p].i = @ + 1]
    /\ UNCHANGED <<procV, learnV, rasterV, callV, got, concurrent, mops>>

\* it returns
SaveMappingReturn(p) ==
    /\ saves[p].pc = "insert"
    /\ saves[p].i > Len(saves[p].mappings)
    /\ saves' = [saves EXCEPT ![p].pc = "returned"]
    /\ UNCHANGED <<procV, learnV, rasterV, callV, column_mappings, got, concurrent, mops>>

\* get_bank_mapping: one SELECT
GetBankMapping ==
    /\ MayStart
    /\ mops < MaxMapOps
    /\ \E bank \in MapBanks : \E rows \in get_bank_mapping(column_mappings, bank) :
         got' = [bank |-> bank, rows |-> rows,
                 during |-> {p \in Connections : Saving(p) /\ saves[p].bank = bank}]
    /\ mops' = mops + 1
    /\ UNCHANGED <<procV, learnV, rasterV, callV, column_mappings, saves, concurrent>>

\* ------------------------------------------------------------------------
\* LearningService.record_correction, statement by statement: each call
\* runs on a connection of its own, outside any transaction, so every
\* statement is committed when it returns and the calls of two requests
\* interleave at their awaits
\* ------------------------------------------------------------------------
MaxCalls == 2

\* a description that is a JSON number, not a string
NumberText == <<"<number>">>

ConcurrentCorrections ==
    {[original |-> Record(K1, "01/15", JAbsent, FALSE),
      corrected |-> Record(<<"fk_ka">>, "01/15", JAbsent, FALSE),
      correction_type |-> "cell_edit"],
     [original |-> Record(AbsentText, "01/15", JAbsent, FALSE),
      corrected |-> Record(AbsentText, "01/16", JAbsent, FALSE),
      correction_type |-> "cell_edit"],
     [original |-> Record(NumberText, "01/15", JAbsent, FALSE),
      corrected |-> Record(<<"x">>, "01/15", JAbsent, FALSE),
      correction_type |-> "cell_edit"]}

NoCorrection ==
    [original |-> Record(AbsentText, AbsentS, JAbsent, FALSE),
     corrected |-> Record(AbsentText, AbsentS, JAbsent, FALSE),
     correction_type |-> "none"]

IdleCall == [pc |-> "idle", c |-> NoCorrection, id |-> 0, existing |-> 0, found |-> FALSE,
             wrote |-> {}]

InitCalls ==
    /\ rc = [p \in Connections |-> IdleCall]
    /\ unique_triple \in BOOLEAN

CallsOff ==
    /\ rc = [p \in Connections |-> IdleCall]
    /\ unique_triple = FALSE

\* lines 37-52: INSERT INTO correction_history ... RETURNING id
InsertHistory(p) ==
    /\ rc[p].pc \in {"idle", "returned", "raised"}
    /\ ops < MaxCalls
    /\ \E c \in ConcurrentCorrections :
         /\ correction_history' = InsertCorrection(correction_history, c)
         /\ rc' = [rc EXCEPT ![p] = [IdleCall EXCEPT !.pc = "learn", !.c = c,
                                                     !.id = Len(correction_history')]]
    /\ ops' = ops + 1
    /\ UNCHANGED <<procV, mapV, rasterV, unique_triple, learning_patterns, kana_dictionary,
                   _cache, lpc, todo, corrected_transactions, bank_name, last, taught>>

\* lines 72-77 and 360-367: the test of _learn_from_correction and, when it
\* holds, the SELECT of learn_pattern; re.search raises TypeError on a
\* description that is not a string
SelectKana(p) ==
    /\ rc[p].pc = "learn"
    /\ LET orig_desc == DescriptionOr(rc[p].c.original)
           corr_desc == DescriptionOr(rc[p].c.corrected)
       IN  IF rc[p].c.correction_type \in {"cell_edit", "row_add"} /\ orig_desc # corr_desc
           THEN IF orig_desc = NumberText
                THEN rc' = [rc EXCEPT ![p].pc = "raised"]
                ELSE IF _is_kana(orig_desc)
                     THEN rc' = [rc EXCEPT ![p].pc = "kana_write",
                                           ![p].found = \E r \in kana_dictionary :
                                                           /\ r.kana_text = orig_desc
                                                           /\ r.converted_text = corr_desc
                                                           /\ r.bank_specific = "NULL"]
                     ELSE rc' = [rc EXCEPT ![p].pc = "pattern_select"]
           ELSE rc' = [rc EXCEPT ![p].pc = "pattern_select"]
    /\ UNCHANGED <<procV, mapV, rasterV, unique_triple, learnV>>

\* lines 369-391: UPDATE the row that was found, else INSERT ... ON CONFLICT
\* (kana_text) DO NOTHING
WriteKana(p) ==
    /\ rc[p].pc = "kana_write"
    /\ LET orig_desc == DescriptionOr(rc[p].c.original)
           corr_desc == DescriptionOr(rc[p].c.corrected)
       IN  kana_dictionary' =
              IF rc[p].found
              THEN {IF r.kana_text = orig_desc /\ r.converted_text = corr_desc
                                                  /\ r.bank_specific = "NULL"
                    THEN [r EXCEPT !.usage_count = @ + 1,
                                   !.confidence_score = Min(10000, @ + 500)]
                    ELSE r : r \in kana_dictionary}
              ELSE IF \E r \in kana_dictionary : r.kana_text = orig_desc
                   THEN kana_dictionary
                   ELSE kana_dictionary \cup
                           {KanaRow(orig_desc, corr_desc, "NULL", 5000, DefaultUsageCount)}
    /\ rc' = [rc EXCEPT ![p].pc = "pattern_select",
                        ![p].wrote = IF kana_dictionary' # kana_dictionary THEN {"kana"} ELSE {}]
    /\ UNCHANGED <<procV, mapV, rasterV, unique_triple, correction_history, learning_patterns,
                   _cache, lpc, todo, corrected_transactions, bank_name, last, taught, ops>>

\* lines 80-87 and 112-120: the pattern type and, when there is one, the
\* SELECT of _update_learning_pattern; without a type the call returns
SelectPattern(p) ==
    /\ rc[p].pc = "pattern_select"
    /\ LET pattern_type == _determine_pattern_type(rc[p].c.original, rc[p].c.corrected)
           existing == {n \in 1..Len(learning_patterns) :
                          /\ learning_patterns[n].pattern_type = pattern_type
                          /\ learning_patterns[n].original_pattern = PyStr(rc[p].c.original)
                          /\ learning_patterns[n].corrected_pattern = PyStr(rc[p].c.corrected)}
       IN  IF pattern_type = "none"
           THEN rc' = [rc EXCEPT ![p].pc = "returned"]
           ELSE rc' = [rc EXCEPT ![p].pc = "pattern_write",
                                 ![p].existing = IF existing = {} THEN 0
                                                 ELSE CHOOSE n \in existing :
                                                          \A m \in existing : n <= m]
    /\ UNCHANGED <<procV, mapV, rasterV, unique_triple, learnV>>

\* lines 122-143: UPDATE the row that was found, else INSERT; the INSERT
\* raises when the table has a unique key on the triple and the triple is
\* there by now; then lines 59-60, the call returns
WritePattern(p) ==
    /\ rc[p].pc = "pattern_write"
    /\ LET pattern_type == _determine_pattern_type(rc[p].c.original, rc[p].c.corrected)
           row == [pattern_type |-> pattern_type,
                   original_pattern |-> PyStr(rc[p].c.original),
                   corrected_pattern |-> PyStr(rc[p].c.corrected),
                   frequency |-> DefaultFrequency,
                   confidence_score |-> DefaultPatternConfidence]
           there == \E n \in 1..Len(learning_patterns) :
                       /\ learning_patterns[n].pattern_type = row.pattern_type
                       /\ learning_patterns[n].original_pattern = row.original_pattern
                       /\ learning_patterns[n].corrected_pattern = row.corrected_pattern
       IN  IF rc[p].existing # 0
           THEN /\ learning_patterns' =
                       [learning_patterns EXCEPT ![rc[p].existing].frequency = @ + 1,
                                                 ![rc[p].existing].confidence_score =
                                                       Min(10000, @ + 800)]
                /\ rc' = [rc EXCEPT ![p].pc = "returned", ![p].wrote = @ \cup {"pattern"}]
           ELSE IF unique_triple /\ there
                THEN /\ rc' = [rc EXCEPT ![p].pc = "raised"]
                     /\ UNCHANGED learning_patterns
                ELSE /\ learning_patterns' = Append(learning_patterns, row)
                     /\ rc' = [rc EXCEPT ![p].pc = "returned", ![p].wrote = @ \cup {"pattern"}]
    /\ UNCHANGED <<procV, mapV, rasterV, unique_triple, correction_history, kana_dictionary,
                   _cache, lpc, todo, corrected_transactions, bank_name, last, taught, ops>>

\* ------------------------------------------------------------------------
\* upload_file (backend/main.py), from the return of process_document on
\* ------------------------------------------------------------------------
\* apply_learned_corrections as one call: each transaction goes through the
\* converter, then through the patterns
RECURSIVE apply_learned_corrections(_, _, _, _, _, _)
apply_learned_corrections(cache, dictionary, patterns, transactions, bank, order) ==
    IF Len(transactions) = 0
    THEN [ret |-> <<>>, cache |-> cache, dictionary |-> dictionary]
    ELSE LET transaction == Head(transactions)
             r == convert(cache, dictionary, transaction.description, bank, order)
             converted == [transaction EXCEPT !.description = r.ret]
             rest == apply_learned_corrections(r.cache, r.dictionary, patterns,
                                               Tail(transactions), bank, order)
         IN  [ret |-> <<_apply_patterns(patterns, converted)>> \o rest.ret,
              cache |-> rest.cache, dictionary |-> rest.dictionary]

\* the dictionary upload_file builds from a TransactionData: the six named
\* fields and nothing else
TransactionDict(t) == [t EXCEPT !.extra = {}]

transactions_dict(transactions) ==
    [n \in 1..Len(transactions) |-> TransactionDict(transactions[n])]

\* the row save_processing_result writes for a transaction: additional_data
\* holds the entries of tx.__dict__ outside the six basic fields, and the
\* __dict__ of a pydantic model holds its declared fields only
SavedTransaction(tx) == [tx EXCEPT !.extra = {}]

save_processing_result(r) ==
    [r EXCEPT !.transactions = [n \in 1..Len(r.transactions) |-> SavedTransaction(r.transactions[n])]]

\* "except Exception: raise HTTPException(status_code=500)"
UploadFails ==
    /\ upc' = "failed"
    /\ response_data' = Response(500, <<>>, Rat(0, 1))

\* lines 168-199: the learned corrections are applied to a result that has
\* transactions; the file name holds no bank name
ApplyLearnedPatterns ==
    /\ upc = "processing"
    /\ status = "returned"
    /\ Len(result.transactions) > 0
    /\ \E ok \in Delivered :
         IF ok
         THEN \E order \in PartialOrders(kana_dictionary),
                 patterns \in PatternOrders(learning_patterns) :
                LET r == apply_learned_corrections(_cache, kana_dictionary, patterns,
                                                   transactions_dict(result.transactions),
                                                   "NULL", order)
                IN  /\ upload_result' = [result EXCEPT !.transactions = r.ret]
                    /\ _cache' = r.cache
                    /\ kana_dictionary' = r.dictionary
                    /\ upc' = "save"
                    /\ UNCHANGED response_data
         ELSE /\ UploadFails
              /\ UNCHANGED <<upload_result, _cache, kana_dictionary>>
    /\ UNCHANGED <<inputV, pc, pdfV, pageV, histV, outV, saved, correction_history,
                   learning_patterns, lpc, todo, corrected_transactions, bank_name, last,
                   taught, ops>>

\* lines 165-168: a result without transactions skips the corrections
SkipLearnedPatterns ==
    /\ upc = "processing"
    /\ status = "returned"
    /\ Len(result.transactions) = 0
    /\ upload_result' = result
    /\ upc' = "save"
    /\ UNCHANGED <<learnV, inputV, pc, pdfV, pageV, histV, outV, saved, response_data>>

\* lines 201-223: the completion is announced, the result is saved and returned
SaveAndRespond ==
    /\ upc = "save"
    /\ \E ok \in Delivered :
         IF ok
         THEN /\ saved' = save_processing_result(upload_result)
              /\ response_data' = Response(200, upload_result.transactions,
                                           upload_result.confidence_score)
              /\ upc' = "responded"
         ELSE UploadFails /\ UNCHANGED saved
    /\ UNCHANGED <<learnV, inputV, pc, pdfV, pageV, histV, outV, upload_result>>

\* ------------------------------------------------------------------------
\* Specifications
\* ------------------------------------------------------------------------
\* no learning call is made while a document is processed
LearnOff ==
    /\ correction_history = <<>>
    /\ learning_patterns = <<>>
    /\ kana_dictionary = {}
    /\ _cache = <<>>
    /\ lpc = "off"
    /\ todo = <<>>
    /\ corrected_transactions = <<>>
    /\ bank_name = "NULL"
    /\ last = NoCall
    /\ taught = {}
    /\ ops = 0

\* the column mapper is not called
MapOff == InitMap /\ concurrent = FALSE

\* no document is processed while the learning service is exercised
RunOff ==
    /\ keys = [openai |-> "unset", anthropic |-> "unset"]
    /\ image_data = [header |-> "other", well_formed |-> TRUE, pages |-> 1, bad_page |-> 0]
    /\ sink = "absent"
    /\ pc = "off"
    /\ images = <<>>
    /\ i = 0
    /\ all_transactions = <<>>
    /\ total_confidence = 0
    /\ quality_score = 0
    /\ claude_result = NotADict
    /\ gpt4v_result = NotADict
    /\ pending = {}
    /\ page_result = NoResult
    /\ page_results = <<>>
    /\ calls = <<>>
    /\ replies = <<>>
    /\ progress_log = <<>>
    /\ undelivered = FALSE
    /\ raster_failed = FALSE
    /\ result = NoResult
    /\ status = "off"
    /\ upc = "off"
    /\ upload_result = NoResult
    /\ saved = NoResult
    /\ response_data = NoResponse

Init == InitRun /\ LearnOff /\ MapOff /\ RasterOff /\ CallsOff

\* the program as shipped: the estimator always answers 0.7
Next ==
    \/ DetectFileType
    \/ ConvertPage
    \/ ConvertDone
    \/ AnalyzePage
    \/ PageCompleted
    \/ Finalize
    \/ Complete
    \/ ReturnSingleImage
    \/ UseMockData
    \/ AssessImageQuality
    \/ StagedExtract
    \/ StagedValidate
    \/ ApplyLearnedPatterns
    \/ SkipLearnedPatterns
    \/ SaveAndRespond

Spec == Init /\ [][Next]_vars

\* the orchestrator with a replaced estimator, up to the return of
\* process_document: every strategy can be chosen
NextQ ==
    \/ DetectFileType
    \/ ConvertPage
    \/ ConvertDone
    \/ AnalyzePage
    \/ PageCompleted
    \/ Finalize
    \/ Complete
    \/ ReturnSingleImage
    \/ UseMockData
    \/ AssessReplacedEstimator
    \/ ClaudeOnlyProcessing
    \/ StagedExtract
    \/ StagedValidate
    \/ ParallelStart
    \/ ClaudeReturns
    \/ Gpt4vReturns
    \/ ParallelMerge

SpecQ == Init /\ [][NextQ]_vars

\* the learning service: calls arrive one after the other
InitL == RunOff /\ InitLearn /\ MapOff /\ RasterOff /\ CallsOff

NextL ==
    \/ RecordCorrection
    \/ LearnKanaEntry
    \/ ConvertKana
    \/ ApplyBegin
    \/ ApplyStep
    \/ ApplyReturn

SpecL == InitL /\ [][NextL]_vars

\* the column mapper, its calls one after the other
InitM == RunOff /\ LearnOff /\ InitMap /\ concurrent = FALSE /\ RasterOff /\ CallsOff

NextM ==
    \/ \E p \in Connections : SaveMappingBegin(p)
    \/ \E p \in Connections : SaveMappingDelete(p)
    \/ \E p \in Connections : SaveMappingInsert(p)
    \/ \E p \in Connections : SaveMappingReturn(p)
    \/ GetBankMapping

SpecM == InitM /\ [][NextM]_vars

\* the column mapper with calls on two connections of the pool at once
InitMC == RunOff /\ LearnOff /\ InitMap /\ concurrent = TRUE /\ RasterOff /\ CallsOff

SpecMC == InitMC /\ [][NextM]_vars

\* the rasterizer on one page, for every size its encodings can have
InitR == RunOff /\ LearnOff /\ MapOff /\ InitRaster /\ CallsOff

NextR ==
    \/ EncodePng
    \/ SaveJpeg
    \/ GetValue

SpecR == InitR /\ [][NextR]_vars

\* record_correction calls of two requests at once, on an empty store
InitC ==
    /\ RunOff /\ MapOff /\ RasterOff /\ InitCalls
    /\ LearnOff

NextC ==
    \/ \E p \in Connections : InsertHistory(p)
    \/ \E p \in Connections : SelectKana(p)
    \/ \E p \in Connections : WriteKana(p)
    \/ \E p \in Connections : SelectPattern(p)
    \/ \E p \in Connections : WritePattern(p)

SpecC == InitC /\ [][NextC]_vars

\* ------------------------------------------------------------------------
\* Properties
\* ------------------------------------------------------------------------
Methods == {"mock_data", "claude_only", "staged", "parallel", "multi_page_staged", "error"}

\* what the strategy chosen for the current page computed from the replies
StrategyOutcome ==
    CASE StrategyFor(quality_score) = "claude_only" -> ClaudeOnlyResult(claude_result)
      [] StrategyFor(quality_score) = "staged" -> _merge_results(claude_result, gpt4v_result, "staged")
      [] OTHER -> _merge_results(claude_result, gpt4v_result, "parallel")

\* a strategy has run on the current page and the page has its result
StrategyRan == pc = "page_return" /\ claude_result # NotADict

PageCalls(p) == SelectSeq(calls, LAMBDA c : c.page = p)

OpsOf(q) == [n \in 1..Len(q) |-> q[n].op]

RECURSIVE ConcatTransactions(_)
ConcatTransactions(results) ==
    IF Len(results) = 0 THEN <<>>
    ELSE results[1].transactions \o ConcatTransactions(Tail(results))

RECURSIVE SumConfidence(_)
SumConfidence(results) ==
    IF Len(results) = 0 THEN 0
    ELSE results[1].confidence_score.num + SumConfidence(Tail(results))

FailedKinds == {"api_error", "no_json", "bad_json"}

\* C1: process_document never raises and what it returns is a
\* ProcessingResult; when the strategy chosen for an image raises, the result
\* of that image is the demonstration dataset labelled mock_data.
C1_AlwaysAResult ==
    /\ status # "raised"
    /\ status = "returned" => result.processing_method \in Methods
    /\ (StrategyRan /\ StrategyOutcome.raised) => page_result = _create_mock_result

C1_Witness ==
    /\ status = "returned"
    /\ file_type # "pdf"
    /\ claude_result # NotADict
    /\ StrategyOutcome.raised
    /\ result = _create_mock_result

\* C2 (as claimed): once a cell_edit has changed the description k, a
\* half-width kana text without dictionary entry, into c, every later
\* apply_learned_corrections returns c for a transaction whose description is k.
C2_CorrectionReachesLaterApply ==
    last.op = "apply_learned_corrections" =>
        \A n \in 1..Len(last.input) : \A t \in taught :
            last.input[n].description = t[1] => last.output[n].description = t[2]

\* C3 (as claimed): a model call that fails by a transport/API error or by an
\* unparseable reply returns an empty transaction list, confidence 0.0 and an
\* error tag.
C3_FailedCallGivesTaggedEmptyCandidate ==
    \A n \in 1..Len(replies) :
        replies[n].kind \in FailedKinds =>
            /\ replies[n].candidate.transactions = TxList(<<>>)
            /\ replies[n].candidate.confidence = JNum(0)
            /\ replies[n].candidate.error_type # "none"

\* C4: with a credential configured, the calls made for a page are those of
\* exactly one strategy, chosen by the quality estimate alone: A only when
\* q > 0.8; A, then B's validation of A's result, then the merge when
\* 0.5 < q <= 0.8; A and B extraction, then the merge when q <= 0.5.
C4_StrategyByQuality ==
    (pc = "page_return" /\ KeyConfigured) =>
        LET made == PageCalls(page_num)
            q == quality_score
        IN  /\ Len(made) >= 1 /\ made[1].op = "assess_image_quality"
            /\ (q > 80) = (OpsOf(Tail(made)) = <<"claude_extract">>)
            /\ (q > 50 /\ q <= 80) = (OpsOf(Tail(made)) = <<"claude_extract", "gpt4v_validate">>)
            /\ (q <= 50) = (OpsOf(Tail(made)) = <<"claude_extract", "gpt4v_extract">>)
            /\ (q > 80) => page_result = FallBackToMock(ClaudeOnlyResult(claude_result)).value
            /\ (q > 50 /\ q <= 80) =>
                   /\ made[3].arg = claude_result
                   /\ page_result =
                          FallBackToMock(_merge_results(claude_result, gpt4v_result, "staged")).value
            /\ (q <= 50) =>
                   page_result =
                       FallBackToMock(_merge_results(claude_result, gpt4v_result, "parallel")).value

C4_Witness ==
    /\ pc = "page_return"
    /\ KeyConfigured
    /\ quality_score = 80
    /\ page_result.processing_method = "staged"
    /\ Len(page_result.transactions) = 2

\* a credential is in the environment: neither unset, empty nor the placeholder
HasCredential == keys.openai = "set" \/ keys.anthropic = "set"

\* C5: without a usable credential the page gets the demonstration result,
\* no quality estimate is computed and no provider is called; with one, the
\* quality estimate is computed and a strategy calls a provider.
C5_MockOnlyWithoutCredentials ==
    pc = "page_return" =>
        IF HasCredential
        THEN /\ Len(PageCalls(page_num)) >= 2
             /\ PageCalls(page_num)[1].op = "assess_image_quality"
             /\ PageCalls(page_num)[2].op = "claude_extract"
        ELSE /\ PageCalls(page_num) = <<>>
             /\ page_result = _create_mock_result

C5_Witness ==
    /\ status = "returned"
    /\ keys = [openai |-> "placeholder", anthropic |-> "empty"]
    /\ file_type = "png"
    /\ result = _create_mock_result
    /\ calls = <<>>

\* the rasterizer did not raise and every progress event was delivered
Undisturbed == ~raster_failed /\ ~undelivered

PageFailed(p) ==
    /\ p <= Len(page_results) => page_results[p].transactions = <<>>
    /\ \E n \in 1..Len(replies) : replies[n].page = p /\ replies[n].kind \in FailedKinds

C8_NothingLegibleGivesZeroConfidence ==
    (file_type = "pdf" /\ status = "returned"
     /\ \A n \in 1..Len(replies) : TransactionsOf(replies[n].candidate) = <<>>) =>
        /\ result.transactions = <<>>
        /\ result.confidence_score.num = 0

\* C9 (as claimed): the result labelled error is returned exactly when the
\* rasterization of a PDF fails, it is empty with confidence 0.0, and no
\* other failure produces it.
C9_ErrorOnlyFromRasterization ==
    status = "returned" =>
        /\ (result.processing_method = "error") = (file_type = "pdf" /\ raster_failed)
        /\ result.processing_method = "error" =>
               result.transactions = <<>> /\ result.confidence_score = Rat(0, 1)

\* C10: the merged list has one transaction per transaction of A, in A's
\* order, with A's date, withdrawal, deposit and balance, whatever B holds.
C10_MergedFollowsA ==
    (pc = "page_return" /\ page_result.processing_method \in {"staged", "parallel"}) =>
        LET a == TransactionsOf(claude_result)
            m == page_result.transactions
        IN  /\ Len(m) = Len(a)
            /\ \A n \in 1..Len(a) :
                   /\ m[n].date = (IF a[n].date = AbsentS THEN "" ELSE a[n].date)
                   /\ m[n].withdrawal.k = (IF a[n].withdrawal.k \in {"num", "numstr"} THEN "num" ELSE "null")
                   /\ m[n].withdrawal.v = a[n].withdrawal.v
                   /\ m[n].deposit.k = (IF a[n].deposit.k \in {"num", "numstr"} THEN "num" ELSE "null")
                   /\ m[n].deposit.v = a[n].deposit.v
                   /\ m[n].balance = JNum(a[n].balance.v)

C10_Witness ==
    /\ pc = "page_return"
    /\ page_result.processing_method = "parallel"
    /\ TransactionsOf(claude_result) = <<RawAtm, RawKa>>
    /\ Len(TransactionsOf(gpt4v_result)) = 3
    /\ Len(page_result.transactions) = 2

\* the current page has the result of a merge of the two candidates
Merged == pc = "page_return" /\ page_result.processing_method \in {"staged", "parallel"}

CountA == Len(TransactionsOf(claude_result))

CountB == Len(TransactionsOf(gpt4v_result))

RatEq(r, q) == r.num * q.den = q.num * r.den

\* C11: the agreement score of a merged result is 0.5 when either candidate
\* has no transaction and the smaller count divided by the larger otherwise;
\* exchanging the candidates gives the same score.
C11_AgreementByCounts ==
    Merged =>
        /\ (CountA = 0 \/ CountB = 0) => RatEq(page_result.agreement_score, Rat(1, 2))
        /\ (CountA > 0 /\ CountB > 0 /\ CountA <= CountB) =>
               RatEq(page_result.agreement_score, Rat(CountA, CountB))
        /\ (CountA > 0 /\ CountB > 0 /\ CountA > CountB) =>
               RatEq(page_result.agreement_score, Rat(CountB, CountA))
        /\ RatEq(_calculate_agreement(gpt4v_result, claude_result),
                 _calculate_agreement(claude_result, gpt4v_result))

C11_Witness ==
    /\ Merged
    /\ CountA = 2
    /\ CountB = 1
    /\ page_result.agreement_score = Rat(1, 2)

ConfA == Get(claude_result.confidence, JNum(0)).v

ConfB == Get(gpt4v_result.confidence, JNum(0)).v

\* C12: the confidence of a merged result is min(conf_A, conf_B) + 0.05 when
\* the agreement is above 0.95, (conf_A + conf_B) / 2 when it is above 0.85
\* and at most 0.95, and max(conf_A, conf_B) * 0.7 otherwise.
C12_FinalConfidenceByBand ==
    Merged =>
        LET s == page_result.agreement_score
            c == page_result.confidence_score
            lo == IF ConfA <= ConfB THEN ConfA ELSE ConfB
            hi == IF ConfA <= ConfB THEN ConfB ELSE ConfA
        IN  /\ c.den = 1
            /\ (s.num * 100 > 95 * s.den) => c.num = lo + 500
            /\ (s.num * 100 > 85 * s.den /\ s.num * 100 <= 95 * s.den) => 2 * c.num = ConfA + ConfB
            /\ (s.num * 100 <= 85 * s.den) => 10 * c.num = 7 * hi

C12_Witness ==
    /\ Merged
    /\ CountA = MaxBand
    /\ CountB = MaxBand + 1
    /\ ConfA = 9000
    /\ ConfB = 8000
    /\ page_result.confidence_score = Rat(8500, 1)

\* a confidence between 0.0 and 1.0 (basis points over a denominator)
InUnitInterval(r) == r.num >= 0 /\ r.num <= 10000 * r.den

\* C13 (as claimed): the confidence_score that upload_file saves and returns
\* lies between 0.0 and 1.0.
C13_PersistedConfidenceInUnitInterval ==
    upc = "responded" =>
        /\ InUnitInterval(saved.confidence_score)
        /\ InUnitInterval(response_data.confidence_score)

\* C20 (as claimed): every extra field of a transaction that process_document
\* returned is in the transaction that upload_file saves and returns.
C20_ExtraFieldsReachStorage ==
    upc = "responded" =>
        /\ Len(saved.transactions) = Len(result.transactions)
        /\ Len(response_data.transactions) = Len(result.transactions)
        /\ \A n \in 1..Len(result.transactions) :
               /\ result.transactions[n].extra \subseteq saved.transactions[n].extra
               /\ result.transactions[n].extra \subseteq response_data.transactions[n].extra

\* the triple that a correction is observed under
TripleOf(c) ==
    [pattern_type |-> _determine_pattern_type(c.original, c.corrected),
     original_pattern |-> PyStr(c.original),
     corrected_pattern |-> PyStr(c.corrected)]

SameTriple(row, t) ==
    /\ row.pattern_type = t.pattern_type
    /\ row.original_pattern = t.original_pattern
    /\ row.corrected_pattern = t.corrected_pattern

Observations(t) ==
    Cardinality({n \in 1..Len(correction_history) : SameTriple(TripleOf(correction_history[n]), t)})

Recorded == Len(correction_history') = Len(correction_history) + 1

\* C14: no step removes a pattern or lowers its frequency or confidence, no
\* confidence exceeds 1.0; a recorded correction whose triple is new adds one
\* pattern, one whose triple is known adds 1 to its frequency and 0.08,
\* capped at 1.0, to its confidence; the frequency of a pattern is the
\* number of observations of its triple.
C14_PatternsOnlyGrow ==
    [][/\ Len(learning_patterns') >= Len(learning_patterns)
       /\ \A n \in 1..Len(learning_patterns) :
              /\ SameTriple(learning_patterns'[n], learning_patterns[n])
              /\ learning_patterns'[n].frequency >= learning_patterns[n].frequency
              /\ learning_patterns'[n].confidence_score >= learning_patterns[n].confidence_score
       /\ \A n \in 1..Len(learning_patterns') : learning_patterns'[n].confidence_score <= 10000
       /\ \A n \in 1..Len(learning_patterns) :
              learning_patterns[n].frequency = Observations(learning_patterns[n])
       /\ ~Recorded => learning_patterns' = learning_patterns
       /\ Recorded =>
              LET t == TripleOf(correction_history'[Len(correction_history')])
                  known == {n \in 1..Len(learning_patterns) : SameTriple(learning_patterns[n], t)}
              IN  /\ Cardinality(known) <= 1
                  /\ (t.pattern_type = "none") => learning_patterns' = learning_patterns
                  /\ (t.pattern_type # "none" /\ known = {}) =>
                         /\ Len(learning_patterns') = Len(learning_patterns) + 1
                         /\ SameTriple(learning_patterns'[Len(learning_patterns')], t)
                         /\ learning_patterns'[Len(learning_patterns')].frequency = 1
                  /\ \A n \in known :
                         /\ Len(learning_patterns') = Len(learning_patterns)
                         /\ learning_patterns'[n].frequency = learning_patterns[n].frequency + 1
                         /\ learning_patterns'[n].confidence_score =
                                (IF learning_patterns[n].confidence_score + 800 > 10000
                                 THEN 10000
                                 ELSE learning_patterns[n].confidence_score + 800)
                         /\ \A m \in 1..Len(learning_patterns) :
                                m # n => learning_patterns'[m] = learning_patterns[m]]_vars

\* the seeded pattern was observed once more and sits at the cap
C14_Witness ==
    /\ Len(learning_patterns) >= 1
    /\ learning_patterns[1].frequency = SeedRepeats + 1
    /\ learning_patterns[1].confidence_score = 10000
    /\ Len(correction_history) = SeedRepeats + 1

RecordCorrectionReturned == ops' = ops + 1 /\ last'.op = "record_correction"

\* C15: a record_correction call that returns has appended exactly one
\* record, the one it was called with, and returns that record's id, also
\* when no pattern is derived from it; no step of the learning service
\* changes or removes a record that is in the log.
C15_CorrectionLogOnlyGrows ==
    [][/\ Len(correction_history') >= Len(correction_history)
       /\ \A n \in 1..Len(correction_history) : correction_history'[n] = correction_history[n]
       /\ RecordCorrectionReturned =>
              /\ Len(correction_history') = Len(correction_history) + 1
              /\ last'.id = Len(correction_history')
              /\ DescriptionOr(correction_history'[last'.id].original) = last'.text
              /\ DescriptionOr(correction_history'[last'.id].corrected) = last'.ret
       /\ ~RecordCorrectionReturned => correction_history' = correction_history]_vars

\* a correction from which no pattern is derived has been recorded after
\* another one
C15_Witness ==
    /\ last.op = "record_correction"
    /\ last.id = Len(correction_history)
    /\ last.id >= 2
    /\ _determine_pattern_type(correction_history[last.id].original,
                               correction_history[last.id].corrected) = "none"
    /\ Len(learning_patterns) = 1

ApplyStepped == lpc = "applying" /\ Len(todo') < Len(todo) /\ lpc' = "applying"

\* the transaction after the first n of the patterns tried on it
RECURSIVE AfterTried(_, _, _)
AfterTried(transaction, tried, n) ==
    IF n = 0 THEN transaction
    ELSE _try_apply_pattern(AfterTried(transaction, tried, n - 1), tried[n].original_pattern,
                            tried[n].corrected_pattern, tried[n].pattern_type)

C17_SubstringMatchReplaces ==
    [][ApplyStepped =>
          LET tried == last'.tried
              given == [Head(todo) EXCEPT !.description = last'.converted]
          IN  \A n \in 1..Len(tried) :
                 LET before == AfterTried(given, tried, n - 1)
                     after == AfterTried(given, tried, n)
                     original_dict == literal_eval(tried[n].original_pattern)
                     corrected_dict == literal_eval(tried[n].corrected_pattern)
                 IN  (/\ tried[n].pattern_type = "description"
                      /\ ~original_dict.raised
                      /\ ~corrected_dict.raised
                      /\ HasKey(before.description)
                      /\ HasKey(original_dict.value.description)
                      /\ HasKey(corrected_dict.value.description)
                      /\ before.description # original_dict.value.description
                      /\ Contains(before.description, original_dict.value.description))
                     => after.description =
                            Replace(before.description, original_dict.value.description,
                                        corrected_dict.value.description)]_vars

Unreadable(row) ==
    literal_eval(row.original_pattern).raised \/ literal_eval(row.corrected_pattern).raised

\* C18: a tried pattern whose stored body does not read back leaves the
\* transaction as it got it, the patterns after it act on that transaction,
\* and the call goes on: no iteration of apply_learned_corrections raises.
C18_UnreadablePatternIsSkipped ==
    [][(lpc = "applying" /\ Len(todo) > 0) =>
          /\ last'.op # "apply_raised"
          /\ ApplyStepped
          /\ LET tried == last'.tried
                  given == [Head(todo) EXCEPT !.description = last'.converted]
                  out == corrected_transactions'[Len(corrected_transactions')]
              IN  /\ \A n \in 1..Len(tried) :
                         Unreadable(tried[n]) =>
                            AfterTried(given, tried, n) = AfterTried(given, tried, n - 1)
                  /\ out = AfterTried(given, tried, Len(tried))]_vars

\* an unreadable pattern was tried first and a later one changed the
\* description
C18_Witness ==
    /\ lpc = "applying"
    /\ Len(corrected_transactions) = 1
    /\ Len(last.tried) >= 2
    /\ Unreadable(last.tried[1])
    /\ last.converted = <<"x">>
    /\ corrected_transactions[1].description # <<"x">>

\* C19: what apply_learned_corrections returns has one transaction for
\* each transaction it was given, in the same order, and each differs from
\* the one given in its description at most, the extra columns included.
C19_ApplyKeepsOtherFields ==
    last.op = "apply_learned_corrections" =>
        /\ Len(last.output) = Len(last.input)
        /\ \A n \in 1..Len(last.input) :
               [last.output[n] EXCEPT !.description = <<>>] =
                   [last.input[n] EXCEPT !.description = <<>>]

\* two transactions with an extra column came back, the first with another
\* description and the second as it was
C19_Witness ==
    /\ last.op = "apply_learned_corrections"
    /\ Len(last.input) = 2
    /\ last.output[1].description # last.input[1].description
    /\ last.output[2].description = last.input[2].description
    /\ last.output[1].extra = {<<"category", "food">>}
    /\ Len(last.tried) > 0

Converted == ops' = ops + 1 /\ last'.op = "convert"

\* the entry an exact-match lookup of text for bank is to answer with: the
\* bank's own, else the generic one
MatchedEntries(dictionary, text, bank) ==
    LET specific == {r \in dictionary : r.kana_text = text /\ r.bank_specific = bank
                                            /\ bank # "NULL"}
        generic == {r \in dictionary : r.kana_text = text /\ r.bank_specific = "NULL"}
    IN  IF specific # {} THEN specific ELSE generic

\* C21: a convert that misses the cache on a text with an exact-match entry
\* (the bank's, else the generic one) returns that entry's converted_text,
\* whatever its confidence, and adds 1 to the usage_count of that entry
\* and changes no other entry.
C21_ExactMatchWins ==
    [][(/\ Converted
        /\ _contains_kana(last'.text)
        /\ cache_key(last'.text, last'.bank) \notin DOMAIN _cache
        /\ MatchedEntries(kana_dictionary, last'.text, last'.bank) # {})
       => \E r \in MatchedEntries(kana_dictionary, last'.text, last'.bank) :
             /\ last'.ret = r.converted_text
             /\ kana_dictionary' =
                    (kana_dictionary \ {r}) \cup {[r EXCEPT !.usage_count = @ + 1]}]_vars

NoHalfWidthKana(text) == \A n \in 1..Len(text) : text[n] \notin HalfKana

\* C22: a convert of a text without half-width kana returns the text and
\* leaves the cache and the dictionary as they were; a conversion result
\* without half-width kana converts to itself, for every bank.
C22_NoKanaIsIdentity ==
    [][Converted =>
          /\ NoHalfWidthKana(last'.text) =>
                 /\ last'.ret = last'.text
                 /\ _cache' = _cache
                 /\ kana_dictionary' = kana_dictionary
          /\ NoHalfWidthKana(last'.ret) =>
                 \A bank \in Banks, order \in PartialOrders(kana_dictionary') :
                    convert(_cache', kana_dictionary', last'.ret, bank, order) =
                        [ret |-> last'.ret, cache |-> _cache', dictionary |-> kana_dictionary']]_vars

\* a text without half-width kana was converted while the cache and the
\* dictionary had entries
C22_Witness ==
    /\ last.op = "convert"
    /\ last.text = <<"fk_ka">>
    /\ last.ret = <<"fk_ka">>
    /\ DOMAIN _cache # {}
    /\ kana_dictionary # {}

\* C23: in every state that convert and learn_pattern calls lead to,
\* convert returns for every text and bank what it would return with the
\* cache emptied.
C23_CacheCanBeDropped ==
    \A text \in {K1, K2, <<"fk_ka">>}, bank \in Banks, order \in PartialOrders(kana_dictionary) :
        convert(_cache, kana_dictionary, text, bank, order).ret =
            convert(<<>>, kana_dictionary, text, bank, order).ret

LearnedKana == ops' = ops + 1 /\ last'.op = "learn_pattern"

SameEntry(r, o) ==
    /\ r.kana_text = o.kana_text
    /\ r.converted_text = o.converted_text
    /\ r.bank_specific = o.bank_specific

\* C24: learn_pattern reinforces the entry of its (kana_text,
\* converted_text, bank) by 1 use and 0.05 of confidence, capped at 1.0;
\* without such an entry it inserts one at confidence 0.5, unless the
\* kana_text has an entry, and then nothing changes. No step changes the
\* converted_text of a kana_text or lowers a usage_count or a confidence,
\* and no confidence exceeds 1.0.
C24_KanaEntriesOnlyGrow ==
    [][/\ \A r \in kana_dictionary :
              \E o \in kana_dictionary' :
                 /\ SameEntry(o, r)
                 /\ o.usage_count >= r.usage_count
                 /\ o.confidence_score >= r.confidence_score
       /\ \A r, o \in kana_dictionary' : r.kana_text = o.kana_text => r = o
       /\ \A r \in kana_dictionary' : r.confidence_score <= 10000
       /\ LearnedKana =>
              LET e == [kana_text |-> last'.text, converted_text |-> last'.ret,
                        bank_specific |-> last'.bank]
                  same == {r \in kana_dictionary : SameEntry(r, e)}
                  taken == {r \in kana_dictionary : r.kana_text = e.kana_text}
              IN  /\ same # {} =>
                         kana_dictionary' = (kana_dictionary \ same) \cup
                             {[r EXCEPT !.usage_count = @ + 1,
                                        !.confidence_score =
                                            (IF @ + 500 > 10000 THEN 10000 ELSE @ + 500)] :
                                 r \in same}
                  /\ (same = {} /\ taken # {}) => kana_dictionary' = kana_dictionary
                  /\ taken = {} =>
                         \E r \in kana_dictionary' :
                            /\ SameEntry(r, e)
                            /\ r.confidence_score = 5000
                            /\ kana_dictionary' = kana_dictionary \cup {r}]_vars

\* the seeded entry (confidence 0.9, 5 uses) was reinforced three times
\* with no conversion in between: the third time at the cap
C24_Witness ==
    /\ last.op = "learn_pattern"
    /\ DOMAIN _cache = {}
    /\ \E r \in kana_dictionary :
          /\ r.kana_text = last.text
          /\ r.converted_text = last.ret
          /\ r.confidence_score = 10000
          /\ r.usage_count = 8

GotMapping == mops' = mops + 1 /\ saves' = saves

\* source and target column names of rows, in their order
ColumnNames(rows) == [n \in 1..Len(rows) |-> <<rows[n].original_name, rows[n].standard_name>>]

\* the mappings of a request that name a source and a target column
RECURSIVE WantedNames(_)
WantedNames(mappings) ==
    IF Len(mappings) = 0 THEN <<>>
    ELSE IF Head(mappings).source_column # "" /\ Head(mappings).target_column # ""
         THEN <<(<<Head(mappings).source_column, Head(mappings).target_column>>)>>
                  \o WantedNames(Tail(mappings))
         ELSE WantedNames(Tail(mappings))

RowsOf(table, bank) ==
    LET Own(row) == row.bank_name = bank
    IN  SelectSeq(table, Own)

\* C25: a get_bank_mapping of a format whose last save_mapping call has
\* returned gives the rows of that call that name a source and a target
\* column, in the order of the request, and nothing else; a step of a
\* save_mapping changes the rows of no other format.
C25_SaveReplacesTheSet ==
    [][/\ GotMapping =>
              \A p \in Connections :
                 (saves[p].bank = got'.bank /\ saves[p].alone /\ saves[p].pc = "returned")
                     => /\ ColumnNames(got'.rows) = WantedNames(saves[p].mappings)
                        /\ \A n \in 1..Len(got'.rows) : got'.rows[n].bank_name = got'.bank
       /\ \A g \in MapBanks :
              (\A p \in Connections : (Saving(p) \/ saves'[p].pc = "delete") => saves'[p].bank # g)
                  => RowsOf(column_mappings', g) = RowsOf(column_mappings, g)]_vars

\* a format was saved twice and read: only the one row of the second
\* request that names both columns is there, its third
C25_Witness ==
    /\ got.bank = "bankA"
    /\ Len(got.rows) = 1
    /\ got.rows[1].position = 3
    /\ \A p \in Connections : saves[p].bank = "bankA" /\ saves[p].pc = "returned"
    /\ \E p \in Connections : ~saves[p].alone /\ Len(WantedNames(saves[p].mappings)) = 2

NameSet(rows) == {ColumnNames(rows)[n] : n \in 1..Len(rows)}

\* what a get_bank_mapping running beside one save_mapping must see
ReadIsAtomic ==
    GotMapping =>
        \A p \in Connections :
           (Saving(p) /\ saves[p].bank = got'.bank /\ saves[p].alone)
               => ColumnNames(got'.rows) \in
                      {ColumnNames(saves[p].old), WantedNames(saves[p].mappings)}

\* what two overlapping save_mapping calls of one format must leave
WritesAreSerial ==
    \A p, q \in Connections :
       (/\ p # q
        /\ saves'[p].pc = "returned" /\ saves'[q].pc = "returned"
        /\ saves'[p].bank = saves'[q].bank
        /\ saves'[p].overlap /\ saves'[q].overlap)
           => \E r \in {p, q} :
                 LET wanted == WantedNames(saves'[r].mappings)
                 IN  NameSet(RowsOf(column_mappings', saves'[p].bank)) =
                         {wanted[n] : n \in 1..Len(wanted)}

\* what a save_mapping that raised must leave
FailureKeepsOldSet ==
    \A p \in Connections :
       (saves'[p].pc = "raised" /\ saves'[p].alone)
           => ColumnNames(RowsOf(column_mappings', saves'[p].bank)) = ColumnNames(saves'[p].old)

\* C26: a get_bank_mapping beside a save_mapping of its format returns the
\* whole old set or the whole new set; two overlapping save_mapping calls
\* of one format leave the set of one of them; a save_mapping that raised
\* leaves the old set.
C26_SaveMappingIsAtomic ==
    [][ReadIsAtomic /\ WritesAreSerial /\ FailureKeepsOldSet]_vars

\* C27: a progress event that could not be delivered does not abort the
\* document: a PDF whose pages were rasterized gets every page analysed and
\* the result a working sink gives, the pages' transactions and average
\* confidence under the label multi_page_staged.
C27_ProgressFailureDoesNotAbort ==
    (file_type = "pdf" /\ status = "returned" /\ ~raster_failed /\ image_data.pages >= 1) =>
        /\ Len(page_results) = image_data.pages
        /\ result.transactions = ConcatTransactions(page_results)
        /\ result.confidence_score = Rat(SumConfidence(page_results), image_data.pages)
        /\ result.processing_method = "multi_page_staged"

\* C28: the percentages handed to the progress sink during a PDF never go
\* down, lie in 0..100, and the last one of a completed document is 100.
C28_ProgressIsMonotonic ==
    file_type = "pdf" =>
        /\ \A n \in 1..Len(progress_log) : progress_log[n] \in 0..100
        /\ \A a, b \in 1..Len(progress_log) : a < b => progress_log[a] <= progress_log[b]
        /\ (status = "returned" /\ result.processing_method = "multi_page_staged"
            /\ sink = "present") => progress_log[Len(progress_log)] = 100

\* C29: in a merged result every transaction of A that carried no score of
\* its own has the confidence the result reports for A (claude_confidence),
\* whether or not A's reply carried a confidence.
C29_UnscoredTakeOverallOfA ==
    Merged =>
        \A n \in 1..Len(page_result.transactions) :
            TransactionsOf(claude_result)[n].confidence_score.k = "absent"
                => RatEq(Rat(page_result.transactions[n].confidence_score, 1),
                         page_result.claude_confidence)

\* C30: whatever its correction_type, a record_correction whose description
\* changed and whose original description holds a half-width kana character
\* hands (original description, corrected description) to learn_pattern;
\* any other record_correction leaves the kana dictionary as it was.
C30_KanaCorrectionsAreLearned ==
    [][RecordCorrectionReturned =>
          LET c == correction_history'[Len(correction_history')]
              orig_desc == DescriptionOr(c.original)
              corr_desc == DescriptionOr(c.corrected)
          IN  IF orig_desc # corr_desc /\ ~NoHalfWidthKana(orig_desc)
              THEN kana_dictionary' = learn_pattern(kana_dictionary, orig_desc, corr_desc, "NULL")
              ELSE kana_dictionary' = kana_dictionary]_vars

\* the classification by priority: description, then amount, then date
PatternTypeByPriority(original, corrected) ==
    CASE /\ original.description # AbsentText
         /\ corrected.description # AbsentText
         /\ original.description # corrected.description -> "description"
      [] /\ ~(/\ original.description # AbsentText
              /\ corrected.description # AbsentText
              /\ original.description # corrected.description)
         /\ original.withdrawal.k # "absent" -> "amount"
      [] OTHER -> IF original.date # AbsentS THEN "date" ELSE "none"

\* C31: a record_correction classifies its pair as description when both
\* records have a description and they differ, else as amount when the
\* original has an amount column, else as date when the original has a
\* date, else not at all; without a type the pattern table is unchanged,
\* with one exactly one pattern, keyed on the type and the string forms of
\* the two whole records, is inserted or reinforced, whether or not the
\* kana learner was fed.
C31_PatternTypeByPriority ==
    [][RecordCorrectionReturned =>
          LET c == correction_history'[Len(correction_history')]
              t == [pattern_type |-> PatternTypeByPriority(c.original, c.corrected),
                    original_pattern |-> PyStr(c.original),
                    corrected_pattern |-> PyStr(c.corrected)]
              known == {n \in 1..Len(learning_patterns) : SameTriple(learning_patterns[n], t)}
          IN  IF t.pattern_type = "none"
              THEN learning_patterns' = learning_patterns
              ELSE \/ /\ known = {}
                      /\ Len(learning_patterns') = Len(learning_patterns) + 1
                      /\ SubSeq(learning_patterns', 1, Len(learning_patterns)) = learning_patterns
                      /\ SameTriple(learning_patterns'[Len(learning_patterns')], t)
                   \/ /\ Cardinality(known) = 1
                      /\ Len(learning_patterns') = Len(learning_patterns)
                      /\ \A n \in 1..Len(learning_patterns) :
                             /\ SameTriple(learning_patterns'[n], learning_patterns[n])
                             /\ learning_patterns'[n].frequency =
                                    learning_patterns[n].frequency + (IF n \in known THEN 1 ELSE 0)]_vars

\* a description correction with an amount and a date beside it and, twice,
\* an amount correction with a date beside it have been recorded
C31_Witness ==
    /\ \E n \in 1..Len(learning_patterns) :
           /\ learning_patterns[n].pattern_type = "amount"
           /\ learning_patterns[n].original_pattern.repr.date # AbsentS
    /\ \E n \in 1..Len(learning_patterns) :
           /\ learning_patterns[n].pattern_type = "description"
           /\ learning_patterns[n].original_pattern.repr.withdrawal.k # "absent"
           /\ learning_patterns[n].original_pattern.repr.date # AbsentS
    /\ Len(learning_patterns) = 2
    /\ Len(correction_history) = 3

\* the entries a substring replacement may use
Qualifying(dictionary) == {r \in dictionary : r.confidence_score > 6000}

\* longest kana_text first, among equal lengths the most used first
LongestFirst(q) ==
    \A a, b \in 1..Len(q) :
        a < b => \/ Len(q[a].kana_text) > Len(q[b].kana_text)
                 \/ /\ Len(q[a].kana_text) = Len(q[b].kana_text)
                    /\ q[a].usage_count >= q[b].usage_count

RECURSIVE ReplacedInOrder(_, _)
ReplacedInOrder(text, q) ==
    IF Len(q) = 0 THEN text
    ELSE ReplacedInOrder(Replace(text, q[1].kana_text, q[1].converted_text), Tail(q))

\* C32: a convert of a text with half-width kana and no exact-match entry
\* returns the text with the kana_text of the entries of confidence above
\* 0.6 replaced, longest kana_text first and most used first among equal
\* lengths; when the text holds the kana_text of such an entry and a part
\* of that kana_text is the kana_text of another, the longer one's
\* conversion is in the result; the result is cached under (text, bank).
C32_LongestEntryFirst ==
    [][(/\ Converted
        /\ ~NoHalfWidthKana(last'.text)
        /\ MatchedEntries(kana_dictionary, last'.text, last'.bank) = {})
       => /\ \E q \in Perms(Qualifying(kana_dictionary)) :
                /\ LongestFirst(q)
                /\ last'.ret = ReplacedInOrder(last'.text, q)
          /\ \A r, o \in Qualifying(kana_dictionary) :
                (/\ Contains(last'.text, r.kana_text)
                 /\ Contains(r.kana_text, o.kana_text)
                 /\ Len(o.kana_text) < Len(r.kana_text))
                    => Contains(last'.ret, r.converted_text)
          /\ cache_key(last'.text, last'.bank) \in DOMAIN _cache'
          /\ _cache'[cache_key(last'.text, last'.bank)] = last'.ret]_vars

\* the replies that came in since the two extractor calls of the page in
\* hand were started
GatherReplies == {replies[n] : n \in (Len(replies) - (2 - Cardinality(pending)) + 1)..Len(replies)}

FailedSide(d) == d.kind # "json"

\* C33: while parallel_merge waits, both extractor calls of the page have
\* been started and each side that has not answered can still answer,
\* whatever the other did; the step that leaves the wait is taken with
\* both answers in, a failed side's candidate is the empty one, and the
\* page result is the merge of the two candidates.
C33_GatherWaitsForBoth ==
    [][(pc = "gather") =>
          /\ Len(calls) >= 2
          /\ calls[Len(calls) - 1] = [op |-> "claude_extract", page |-> page_num,
                                      returned |-> Len(page_results), arg |-> NotADict]
          /\ calls[Len(calls)] = [op |-> "gpt4v_extract", page |-> page_num,
                                  returned |-> Len(page_results), arg |-> NotADict]
          /\ ("claude" \in pending) => ENABLED ClaudeReturns
          /\ ("gpt4v" \in pending) => ENABLED Gpt4vReturns
          /\ (pc' # "gather") =>
                /\ pending = {}
                /\ {d.op : d \in GatherReplies} = {"claude_extract", "gpt4v_extract"}
                /\ \A d \in GatherReplies :
                       /\ d.page = page_num
                       /\ d.candidate = (IF d.op = "claude_extract" THEN claude_result
                                                                    ELSE gpt4v_result)
                       /\ FailedSide(d) => /\ d.candidate.transactions = TxList(<<>>)
                                            /\ d.candidate.confidence = JNum(0)
                /\ pc' = "page_return"
                /\ \/ page_result' = _create_mock_result
                   \/ /\ page_result'.processing_method = "parallel"
                      /\ Len(page_result'.transactions) = Len(TransactionsOf(claude_result))
                      /\ page_result'.claude_confidence =
                             Rat(Get(claude_result.confidence, JNum(0)).v, 1)
                      /\ page_result'.gpt4v_confidence =
                             Rat(Get(gpt4v_result.confidence, JNum(0)).v, 1)
                /\ (\E d \in GatherReplies : FailedSide(d) /\ d.op = "claude_extract")
                       => /\ page_result'.processing_method = "parallel"
                          /\ page_result'.transactions = <<>>]_vars

\* provider B's call failed, A's answer has a transaction, and the page
\* result is their merge
C33_Witness ==
    /\ pc = "page_return"
    /\ page_result.processing_method = "parallel"
    /\ Len(page_result.transactions) >= 1
    /\ Len(replies) >= 2
    /\ replies[Len(replies) - 1].op = "gpt4v_extract"
    /\ replies[Len(replies) - 1].kind = "api_error"
    /\ replies[Len(replies)].op = "claude_extract"
    /\ replies[Len(replies)].kind = "json"
    /\ keys.openai = "set"

\* the qualities from 85 down in steps of 10
QualityAt(n) == 85 - 10 * (n - 1)

\* C34: a page whose PNG is within 4 MiB is emitted as that PNG; a larger
\* one is encoded as JPEG at 85, 75, ... in steps of 10, the first
\* encoding under the cap is emitted, and when none is under the cap the
\* loop ends with an encoding made at quality 30, which is emitted; the
\* loop ends for every image, its quality falling with each encoding.
C34_LossyLoopStopsAtFloor ==
    /\ \A n \in 1..Len(qualities) : qualities[n] = QualityAt(n)
    /\ \A n \in 1..(Len(qualities) - 1) : jpeg_size[qualities[n]] >= SizeCap
    /\ (rpc = "while") => (quality = QualityAt(Len(qualities) + 1) /\ quality >= 0)
    /\ (rpc = "append") =>
          IF png_size <= SizeCap
          THEN img_data = [format |-> "png", size |-> png_size, made_at |-> 0] /\ qualities = <<>>
          ELSE /\ img_data.format = "jpeg"
               /\ Len(qualities) >= 1
               /\ img_data.made_at = qualities[Len(qualities)]
               /\ img_data.size = jpeg_size[img_data.made_at]
               /\ (img_data.size < SizeCap \/ img_data.made_at = 30)

\* C35: with the shipped estimator neither single_model nor parallel_merge
\* is entered: no extractor call of B and no gather is made, and a page
\* processed with a credential has made the quality estimate, A's
\* extraction and B's validation, in that order, and nothing else.
C35_ShippedEstimatorAlwaysStaged ==
    /\ pc \notin {"claude_only", "parallel", "gather"}
    /\ pending = {}
    /\ \A n \in 1..Len(calls) :
           calls[n].op \in {"assess_image_quality", "claude_extract", "gpt4v_validate"}
    /\ (pc = "page_return" /\ HasCredential) =>
           /\ Len(PageCalls(page_num)) = 3
           /\ PageCalls(page_num)[1].op = "assess_image_quality"
           /\ PageCalls(page_num)[2].op = "claude_extract"
           /\ PageCalls(page_num)[3].op = "gpt4v_validate"
           /\ page_result.processing_method \in {"staged", "mock_data"}

\* the second page of a PDF went through staged_verify with only A's
\* credential configured
C35_Witness ==
    /\ pc = "page_return"
    /\ file_type = "pdf"
    /\ page_num = 2
    /\ keys.anthropic = "set"
    /\ keys.openai # "set"
    /\ page_result.processing_method = "staged"
    /\ Len(PageCalls(2)) = 3

\* the page in hand went through staged_verify: the last reply is the
\* validator's
Validated ==
    /\ pc = "page_return"
    /\ Len(replies) >= 1
    /\ replies[Len(replies)].op = "gpt4v_validate"
    /\ replies[Len(replies)].page = page_num

ValidatorFailed == replies[Len(replies)].kind # "json"

\* the validator's reply is an object without a list of transactions, or
\* the validation failed
NoListFromValidator ==
    /\ Validated
    /\ \/ ValidatorFailed
       \/ /\ replies[Len(replies)].candidate.shape = "dict"
          /\ replies[Len(replies)].candidate.transactions.k # "list"

\* 0.5 and 0.7 * max(conf_A, conf_B), conf_B being 0.5 after a failure and
\* the reply's confidence, 0.0 if absent, otherwise
SeventyPercentOfMax ==
    LET reported == Get(replies[Len(replies)].candidate.confidence, JNum(0)).v
        conf_B == IF ValidatorFailed THEN 5000 ELSE reported
        hi == IF ConfA <= conf_B THEN conf_B ELSE ConfA
    IN  /\ page_result.agreement_score = Rat(1, 2)
        /\ page_result.confidence_score.den = 1
        /\ 10 * page_result.confidence_score.num = 7 * hi

\* C36 (as claimed): whenever the validator's reply carries no transaction
\* list, the page's agreement_score is 0.5 and its confidence is
\* 0.7 * max(conf_A, conf_B).
C36_ReportGivesSeventyPercentOfMax == NoListFromValidator => SeventyPercentOfMax

\* C36 (amended): the same, for the pages whose merge returned a result,
\* that is, whose result is labelled staged; a page whose merge raised has
\* the demonstration result.
C36_MergedReportGivesSeventyPercentOfMax ==
    NoListFromValidator =>
        IF page_result.processing_method = "staged"
        THEN SeventyPercentOfMax
        ELSE page_result = _create_mock_result

\* the validation failed after A answered a transaction without a
\* confidence: 0.7 * max(0.0, 0.5)
C36_Witness ==
    /\ NoListFromValidator
    /\ ValidatorFailed
    /\ keys.openai = "set"
    /\ page_result.processing_method = "staged"
    /\ Len(page_result.transactions) >= 1
    /\ page_result.confidence_score = Rat(3500, 1)

Demonstration(tx) == \E n \in 1..Len(mock_transactions) : tx = mock_transactions[n]

\* C37: a result that process_document returns holds a demonstration
\* transaction only under the label mock_data; under multi_page_staged
\* every transaction comes from a provider reply for a page of the document.
C37_MockDataNeverMixed ==
    status = "returned" =>
        /\ (\E n \in 1..Len(result.transactions) : Demonstration(result.transactions[n]))
               => result.processing_method = "mock_data"
        /\ (result.processing_method = "multi_page_staged") =>
               /\ \A n \in 1..Len(result.transactions) : ~Demonstration(result.transactions[n])
               /\ \A p \in 1..Len(page_results) : page_results[p].processing_method # "mock_data"

Quiescent == \A p \in Connections : rc[p].pc \in {"idle", "returned", "raised"}

\* C38 (as claimed): once the concurrent record_correction calls are over,
\* no two patterns of the store have the same (pattern_type,
\* original_pattern, corrected_pattern) and the frequency of every pattern
\* is the number of recorded observations of its triple.
C38_OnePatternPerTriple ==
    Quiescent =>
        /\ \A n, m \in 1..Len(learning_patterns) :
               SameTriple(learning_patterns[n], learning_patterns[m]) => n = m
        /\ \A n \in 1..Len(learning_patterns) :
               learning_patterns[n].frequency = Observations(learning_patterns[n])

\* C39 (as claimed): a record_correction call that raised has left no
\* record in the correction log and has changed no pattern and no kana
\* dictionary entry.
C39_RaisedCallLeavesNothing ==
    \A p \in Connections :
        rc[p].pc = "raised" =>
            /\ \A n \in 1..Len(correction_history) : n # rc[p].id
            /\ rc[p].wrote = {}

\* the generic entries and the entries of the bank
InScope(dictionary, bank) == {r \in dictionary : r.bank_specific \in {"NULL", bank}}

\* C40 (as claimed): what a convert of a text with half-width kana for a
\* bank returns is the converted_text of an exact-match entry that is
\* generic or of that bank, or the text with the kana_text of some entries
\* that are generic or of that bank replaced; no entry of another bank has
\* a part in it.
C40_OnlyEntriesInScope ==
    [][(Converted /\ ~NoHalfWidthKana(last'.text))
       => LET D == InScope(kana_dictionary, last'.bank)
          IN  \/ \E r \in D : r.kana_text = last'.text /\ last'.ret = r.converted_text
              \/ \E S \in SUBSET Qualifying(D) : \E q \in Perms(S) :
                     last'.ret = ReplacedInOrder(last'.text, q)]_vars

====
